---- MODULE Spec2Model ----
(***************************************************************************)
(* Model of the credential core of cloudflare-auth-sdk (client.go):        *)
(* Register, Login, ValidateToken, GetUserByID, GetUserByEmail and         *)
(* DeleteUser over a key-value store that holds two entries per user,      *)
(* "user:email:<email>" (the serialized record) and "user:id:<id>" (the    *)
(* raw email).  Callers run concurrently; one step of the model is one     *)
(* call to the store together with the local computation around it.        *)
(* The store is modelled as a linearizable map whose calls may fail.       *)
(***************************************************************************)
EXTENDS Integers, Sequences, FiniteSets, TLC

\* ------------------------------------------------------------------ bounds
MaxUsers == 2
MaxFaults == 1
MaxRetryFaults == 2
MaxAdvances == 2
MaxTokens == 1
NumSalts == 1

\* ------------------------------------------------------- program constants
TicksPerSecond == 2
Hour == 3600 * TicksPerSecond
DefaultExpirationHours == 24
BcryptDefaultCost == 10
BcryptMaxKey == 72

Procs == {"c1", "c2"}
Caller == "c1"
Emails == {"", "a@x.com"}
Passwords == {<<>>, <<1>>, <<2>>}
\* Passwords with a NUL byte inside, of 72 bytes and of 73 bytes.
Password72 == [i \in 1..72 |-> 1]
OddPasswords == {<<1, 0, 1>>, Password72, Append(Password72, 2)}
\* The passwords the single caller registers with: empty, short, 72 and 73 bytes.
RegisterPasswords == {<<>>, <<1>>, Password72, Append(Password72, 2)}
\* Two emails that differ in letter case only.
CaseEmails == {"a@x.com", "A@x.com"}
\* Strings handed to the key derivations: emails, ids, and strings that carry
\* a piece of the other namespace's prefix.
KeyStrings == {"", "a@x.com", "A@x.com", "id-1", "ID-1", "email:a@x.com",
               "id:id-1", "user:id:id-1", ":"}
ConfigHours == {0, 1}
\* The values of JWTExpirationHours that ClientOptions.Validate lets through.
AcceptedHours == {-1, 0, 1}
jwtSecret == "secret"
ForeignSecret == "other-secret"

\* ------------------------------------------------------------ errors.go
NoErr == [Op |-> "", Err |-> "", Message |-> "", Code |-> 0]

NewAppError(op, err, message, code) ==
  [Op |-> op, Err |-> err, Message |-> message, Code |-> code]

\* errors.Is walks the Unwrap chain: an AppError matches the sentinel it wraps.
IsUserNotFound(err) == err.Err = "ErrUserNotFound"
IsUserAlreadyExists(err) == err.Err = "ErrUserAlreadyExists"
IsInvalidCredentials(err) == err.Err = "ErrInvalidCredentials"
IsInvalidToken(err) == err.Err = "ErrInvalidToken"

\* --------------------------------------------------------------- records
NoHash == [cost |-> 0, salt |-> 0, digest |-> <<>>]
NoUser == [ID |-> "", Email |-> "", PasswordHash |-> NoHash,
           CreatedAt |-> 0, UpdatedAt |-> 0]
NoUserInfo == [ID |-> "", Email |-> ""]

\* A stored value is a byte string: either the JSON text of a User or raw text.
\* Mutant: the ID field is left out of the serialized record.
toJSONNoID(u) == [json |-> TRUE, text |-> "", user |-> [u EXCEPT !.ID = ""]]

toJSON(u) == [json |-> TRUE, text |-> "", user |-> u]
Bytes(s) == [json |-> FALSE, text |-> s, user |-> NoUser]
NoBytes == Bytes("")

\* string(data): the text of the bytes; JSON text is never an email of the model.
String(data) == IF data.json THEN "{json}" ELSE data.text

userFromJSON(data) ==
  IF data.json
  THEN [user |-> data.user, err |-> ""]
  ELSE [user |-> NoUser, err |-> "json: invalid character"]

ToUserInfo(u) == [ID |-> u.ID, Email |-> u.Email]

\* ------------------------------------------------------- key derivation
\* Mutant: the email is folded to lower case before the key is built.
getUserKeyFolded(email) ==
  "user:email:" \o (IF email = "A@x.com" THEN "a@x.com" ELSE email)

getUserKey(email) == "user:email:" \o email
getUserIDKey(userID) == "user:id:" \o userID

\* uuid.New().String(): the n-th identifier drawn, never drawn before.
NewUUID(n) == "id-" \o ToString(n)

\* ------------------------------------------------------ KV call wrappers
\* The outcomes of a Get call: the request succeeds and its body is read; the
\* request fails; the request succeeds and reading its body fails.
GetOK == "ok"
RequestFailed == "request failed"
ReadFailed == "read failed"
GetOutcomes == {GetOK, RequestFailed, ReadFailed}
Failed(how) == how # GetOK

\* Only the response to a successful request has a body to read, and the
\* request for an absent key fails.
Possible(st, key, how) == how = ReadFailed => key \in DOMAIN st

\* A failed request and the request for an absent key return (nil, err).  A
\* failed read of the body returns what io.ReadAll returns: the bytes read so
\* far, never nil, and the error.
kvGet(st, key, how) ==
  IF how = RequestFailed
  THEN [data |-> NoBytes, isnil |-> TRUE, err |-> "kv: request failed"]
  ELSE IF key \notin DOMAIN st
       THEN [data |-> NoBytes, isnil |-> TRUE, err |-> "kv: key not found"]
       ELSE IF how = ReadFailed
            THEN [data |-> NoBytes, isnil |-> FALSE, err |-> "read: unexpected EOF"]
            ELSE [data |-> st[key], isnil |-> FALSE, err |-> ""]

\* Mutant: a write to a key that is present is dropped and reports success.
kvSetKeepFirst(st, key, value, fail) ==
  IF fail THEN [store |-> st, err |-> "kv: request failed"]
  ELSE IF key \in DOMAIN st THEN [store |-> st, err |-> ""]
  ELSE [store |-> [k \in (DOMAIN st) \cup {key} |-> IF k = key THEN value ELSE st[k]],
        err |-> ""]

kvSet(st, key, value, fail) ==
  IF fail THEN [store |-> st, err |-> "kv: request failed"]
  ELSE [store |-> [k \in (DOMAIN st) \cup {key} |-> IF k = key THEN value ELSE st[k]],
        err |-> ""]

\* Mutant: the Delete call reports success without removing the key.
kvDeleteNoop(st, key, fail) ==
  IF fail THEN [store |-> st, err |-> "kv: request failed"]
  ELSE [store |-> st, err |-> ""]

kvDelete(st, key, fail) ==
  IF fail THEN [store |-> st, err |-> "kv: request failed"]
  ELSE [store |-> [k \in (DOMAIN st) \ {key} |-> st[k]], err |-> ""]

\* ------------------------------------------------------- write options
\* KVWriteOptions and kv.WriteOptions: a nil pointer, or the two fields.
NoOptions == [nil |-> TRUE, ExpirationTTL |-> 0, Metadata |-> ""]
WriteOptions ==
  { NoOptions,
    [nil |-> FALSE, ExpirationTTL |-> 0, Metadata |-> ""],
    [nil |-> FALSE, ExpirationTTL |-> 3600, Metadata |-> "tag"] }


\* The parameters of the Update that KVSet and kv.Client.Set build: the TTL is
\* set when opts is not nil and its TTL is positive, the metadata when opts is
\* not nil and its metadata is not empty.
UpdateParams(opts) ==
  [ExpirationTTL |-> IF ~opts.nil /\ opts.ExpirationTTL > 0 THEN opts.ExpirationTTL ELSE 0,
   Metadata |-> IF ~opts.nil /\ opts.Metadata # "" THEN opts.Metadata ELSE ""]

\* The options of a plain write: they set no parameter of the Update.
PlainOptions == {opts \in WriteOptions : UpdateParams(opts) = UpdateParams(NoOptions)}

\* What the namespace keeps beside the value of a key: the time at which the
\* key expires (0: never) and its metadata.
NoMeta == [Expiration |-> 0, Metadata |-> ""]

Without(f, keys) == [k \in (DOMAIN f) \ keys |-> f[k]]

\* An Update at time t replaces what the namespace kept for the key.
Updated(m, key, params, t, fail) ==
  LET entry == [Expiration |-> IF params.ExpirationTTL > 0
                               THEN t + params.ExpirationTTL * TicksPerSecond ELSE 0,
                Metadata |-> params.Metadata]
  IN  IF fail THEN m
      ELSE IF entry = NoMeta THEN Without(m, {key})
      ELSE [k \in (DOMAIN m) \cup {key} |-> IF k = key THEN entry ELSE m[k]]

\* A Delete removes what the namespace kept for the key.
Removed(m, keys, fail) == IF fail THEN m ELSE Without(m, keys)

\* The keys that have expired at time t: the namespace no longer holds them.
Expired(m, t) == {k \in DOMAIN m : m[k].Expiration # 0 /\ m[k].Expiration <= t}

\* ------------------------------------------------------------------ bcrypt
\* Mutant: the key is the password without its terminating NUL.
BcryptKeyNoNul(password) ==
  LET ckey == IF password = <<>> THEN <<0>> ELSE password
  IN  [i \in 1..BcryptMaxKey |-> ckey[((i - 1) % Len(ckey)) + 1]]

\* The Blowfish key schedule reads 72 bytes cyclically from password ++ NUL.
BcryptKey(password) ==
  LET ckey == Append(password, 0)
  IN  [i \in 1..BcryptMaxKey |-> ckey[((i - 1) % Len(ckey)) + 1]]

GenerateFromPassword(password, cost, salt) ==
  IF Len(password) > BcryptMaxKey
  THEN [hash |-> NoHash, err |-> "bcrypt: password length exceeds 72 bytes"]
  ELSE [hash |-> [cost |-> cost, salt |-> salt, digest |-> BcryptKey(password)],
        err |-> ""]

\* Mutant: the stored digest is compared with the password itself.
CompareHashAndPasswordRaw(hash, password) ==
  IF hash.cost = 0 THEN "bcrypt: hashedSecret too short"
  ELSE IF hash.digest = password THEN ""
  ELSE "bcrypt: hashedPassword is not the hash of the given password"

\* Mutant: any password is taken for a well-formed hash.
CompareHashAndPasswordNoCheck(hash, password) ==
  IF hash.cost = 0 THEN "bcrypt: hashedSecret too short" ELSE ""

CompareHashAndPassword(hash, password) ==
  IF hash.cost = 0 THEN "bcrypt: hashedSecret too short"
  ELSE IF hash.digest = BcryptKey(password) THEN ""
  ELSE "bcrypt: hashedPassword is not the hash of the given password"

\* --------------------------------------------------------------------- jwt
HMACMethods == {"HS256", "HS384", "HS512"}

NoClaims == [user_id |-> "", email |-> "", exp |-> 0, iat |-> 0, nbf |-> 0]
NoSig == [alg |-> "", key |-> "", claims |-> NoClaims]
\* The empty string: not a three-segment token.
NoToken == [malformed |-> TRUE, alg |-> "", claims |-> NoClaims, sig |-> NoSig]

\* Mutant: the time is rounded up to the next whole second.
NewNumericDateCeil(t) == t + ((TicksPerSecond - (t % TicksPerSecond)) % TicksPerSecond)

\* jwt.NewNumericDate truncates to jwt.TimePrecision (one second).
NewNumericDate(t) == t - (t % TicksPerSecond)

\* method.Sign(signingString, key): a MAC over header and claims under key.
Sign(alg, key, claims) == [alg |-> alg, key |-> key, claims |-> claims]

\* jwt.NewWithClaims(method, claims).SignedString(key)
SignedString(alg, claims, key) ==
  [malformed |-> FALSE, alg |-> alg, claims |-> claims, sig |-> Sign(alg, key, claims)]

\* The Keyfunc handed to jwt.ParseWithClaims: any HMAC method gets the secret.
Keyfunc(tok) == tok.alg \in HMACMethods

\* Mutant: a token is still accepted at the very tick it expires.
ValidateClaimsInclusive(claims, t) ==
  IF t > claims.exp THEN "jwt: token has invalid claims: token is expired"
  ELSE IF t < claims.nbf THEN "jwt: token has invalid claims: token is not valid yet"
  ELSE ""

\* jwt.Validator.Validate: exp is checked first, then nbf; iat is not checked.
ValidateClaims(claims, t) ==
  IF ~(t < claims.exp) THEN "jwt: token has invalid claims: token is expired"
  ELSE IF t < claims.nbf THEN "jwt: token has invalid claims: token is not valid yet"
  ELSE ""

\* token.Method.Verify with a []byte key: only the HMAC methods take such a key.
Verify(tok, key) ==
  tok.alg \in HMACMethods /\ tok.sig = Sign(tok.alg, key, tok.claims)

\* jwt.ParseWithClaims at time t: the error text, "" when the token is valid.
ParseWithClaims(tok, key, t) ==
  IF tok.malformed THEN "jwt: token is malformed"
  ELSE IF ~Keyfunc(tok) THEN "jwt: token is unverifiable: unexpected signing method"
  ELSE IF ~Verify(tok, key) THEN "jwt: token signature is invalid"
  ELSE ValidateClaims(tok.claims, t)

parseToken(tok, t) ==
  LET e == ParseWithClaims(tok, jwtSecret, t)
  IN  IF e # ""
      THEN [claims |-> NoClaims, err |-> NewAppError("Client.parseToken", e, "invalid token", 401)]
      ELSE [claims |-> tok.claims, err |-> NoErr]

\* --------------------------------------------------------------- variables
VARIABLES
  store,      \* the KV namespace: key -> bytes, for the keys present
  now,        \* the wall clock, in ticks
  advances,   \* how often the clock has advanced
  jwtExpiry,  \* Client.jwtExpiry, in ticks
  nextId,     \* how many identifiers uuid.New has drawn, plus one
  faults,     \* how many store calls have failed
  issued,     \* the tokens Login has returned
  pc,         \* per caller: where its operation stands
  call,       \* per caller: the arguments and locals of its operation in progress
  ev,         \* the operation that returned in the last step, if one did
  known,      \* per email: what completed, undisturbed operations established
  alone,      \* per caller: no other Register/DeleteUser on its email overlapped
  raced,      \* emails on which two Register/DeleteUser calls overlapped
  deleted,    \* the history of deletions, when observed
  kvmeta      \* per key written with options: its expiration and its metadata

vars == <<store, now, advances, jwtExpiry, nextId, faults, issued, pc, call, ev,
          known, alone, raced, deleted, kvmeta>>

StartTime == 10 * Hour

Unknown(e) == [st |-> "unknown", email |-> e, id |-> "", password |-> <<>>]
Absent(e) == [st |-> "absent", email |-> e, id |-> "", password |-> <<>>]
Registered(e, id, pw) == [st |-> "registered", email |-> e, id |-> id, password |-> pw]
\* Register wrote the record of e and failed to write its index entry.
Partial(e, id, pw) == [st |-> "partial", email |-> e, id |-> id, password |-> pw]
Deleted(e, id) == [st |-> "deleted", email |-> e, id |-> id, password |-> <<>>]

\* What is established about the string a caller passes as an email.
KnownOf(e) == IF e \in Emails THEN known[e] ELSE Unknown(e)

KnownOfId(id) ==
  IF id # "" /\ \E e \in Emails : known[e].id = id
  THEN known[CHOOSE e \in Emails : known[e].id = id]
  ELSE Unknown("")

\* The history of deletions, when it is observed (on): the ids whose record a
\* DeleteUser removed and the ids whose DeleteUser returned success.
NoneDeleted == [on |-> TRUE, removed |-> {}, done |-> {}]
Unobserved == [on |-> FALSE, removed |-> {}, done |-> {}]

\* The store as an operation finds it, noted when the history is observed.
Store0 == IF deleted.on THEN store ELSE <<>>

NoCall == [op |-> "", email |-> "", password |-> <<>>, user |-> NoUser,
           token |-> NoToken, userID |-> "", emailData |-> "", at |-> 0,
           expect |-> Unknown(""), nofault |-> TRUE,
           calls |-> [get |-> 0, set |-> 0, del |-> 0, hash |-> 0],
           key |-> "", value |-> NoBytes, began |-> Unobserved, store0 |-> <<>>]

NoRes == [op |-> "", ok |-> FALSE, err |-> NoErr, user |-> NoUser,
          token |-> NoToken, expiresAt |-> 0, info |-> NoUserInfo,
          claims |-> NoClaims]

\* What an observer of the store notes when an operation returns.
NoNote == [nofault |-> TRUE, steady |-> TRUE, failed |-> FALSE,
           present |-> FALSE, seen |-> NoBytes]

NoEvent == [proc |-> "", call |-> NoCall, res |-> NoRes, note |-> NoNote]

\* NewClient: the configured lifetime, 24 hours when JWTExpirationHours is 0.
NewClient(hours) ==
  LET jwtExp == hours * Hour
  IN  IF jwtExp = 0 THEN DefaultExpirationHours * Hour ELSE jwtExp

Init ==
  /\ store = <<>>
  /\ now = StartTime
  /\ advances = 0
  /\ jwtExpiry = NewClient(0)
  /\ nextId = 1
  /\ faults = 0
  /\ issued = {}
  /\ pc = [p \in Procs |-> "idle"]
  /\ call = [p \in Procs |-> NoCall]
  /\ ev = NoEvent
  /\ known = [e \in Emails |-> Absent(e)]
  /\ alone = [p \in Procs |-> TRUE]
  /\ raced = {}
  /\ deleted = Unobserved
  /\ kvmeta = <<>>

\* ------------------------------------------------------ shared machinery
\* The outcomes a store call can have: it may fail while faults remain.
FailChoices == IF faults < MaxFaults THEN {FALSE, TRUE} ELSE {FALSE}
GetChoices == IF faults < MaxFaults THEN GetOutcomes ELSE {GetOK}
Count(fail) == IF fail THEN 1 ELSE 0

Mutating(q) ==
  pc[q] \in {"saveUser_email", "saveUser_id", "del_email", "del_id",
             "Service.Register_email", "Service.Register_id",
             "Service.Delete_email", "Service.Delete_id"}
Others(p, e) == \E q \in Procs \ {p} : Mutating(q) /\ call[q].email = e

\* What is really stored under the email key, whatever a Get reports.
Stored(key) == IF key \in DOMAIN store THEN store[key] ELSE NoBytes

\* A Register or DeleteUser on e starts to change the store.
EnterMutation(p, e) ==
  /\ alone' = [q \in Procs |->
                 IF q = p THEN ~Others(p, e)
                 ELSE IF Mutating(q) /\ call[q].email = e THEN FALSE ELSE alone[q]]
  /\ raced' = IF Others(p, e) THEN raced \cup {e} ELSE raced
  /\ known' = [x \in Emails |-> IF x = e THEN Unknown(e) ELSE known[x]]

\* A Register or DeleteUser on e returns.
LeaveMutation(p, e, established) ==
  /\ known' = [x \in Emails |->
                 IF x = e THEN (IF alone[p] THEN established ELSE Unknown(e))
                 ELSE known[x]]
  /\ UNCHANGED <<alone, raced>>

Return(p, c, r, n) ==
  /\ pc' = [pc EXCEPT ![p] = "idle"]
  /\ call' = [call EXCEPT ![p] = NoCall]
  /\ ev' = [proc |-> p, call |-> c, res |-> r, note |-> n]

Goto(p, label, c) ==
  /\ pc' = [pc EXCEPT ![p] = label]
  /\ call' = [call EXCEPT ![p] = c]
  /\ ev' = NoEvent

\* The note of a step that read or wrote the entry under key.
Note(key, fail, steady, failed) ==
  [nofault |-> ~fail, steady |-> steady, failed |-> failed,
   present |-> key \in DOMAIN store, seen |-> Stored(key)]

Failure(op, err) == [NoRes EXCEPT !.op = op, !.err = err]

\* Mutant: an absent record yields a record holding the email alone.
getUserByEmailPartial(st, email, how) ==
  LET g == kvGet(st, getUserKey(email), how)
  IN  IF g.err # ""
      THEN [user |-> [NoUser EXCEPT !.Email = email], err |-> NoErr]
      ELSE LET u == userFromJSON(g.data)
           IN  IF u.err # ""
               THEN [user |-> NoUser, err |-> [NoErr EXCEPT !.Err = u.err]]
               ELSE [user |-> u.user, err |-> NoErr]

\* getUserByEmail: one Get, then userFromJSON, whose error is returned as it is.
getUserByEmail(st, email, how) ==
  LET g == kvGet(st, getUserKey(email), how)
  IN  IF g.err # ""
      THEN [user |-> NoUser,
            err |-> NewAppError("Client.getUserByEmail", "ErrUserNotFound", "user not found", 404)]
      ELSE LET u == userFromJSON(g.data)
           IN  IF u.err # ""
               THEN [user |-> NoUser, err |-> [NoErr EXCEPT !.Err = u.err]]
               ELSE [user |-> u.user, err |-> NoErr]

\* Mutant: only the email is checked.
MissingInputEmailOnly(email, password) == email = ""

\* The input check of Register and Login: email == "" || password == "".
MissingInput(email, password) == email = "" \/ password = <<>>

\* ---------------------------------------------------------------- Register
\* Input check, existence probe (its error is dropped), hash, new record.
Register(p, email, password, how, salt) ==
  /\ pc[p] = "idle"
  /\ LET fail == Failed(how)
         op == "Client.Register"
         key == getUserKey(email)
         c0 == [NoCall EXCEPT !.store0 = Store0, !.op = op, !.email = email, !.password = password,
                              !.at = now, !.expect = KnownOf(email)]
     IN  IF MissingInput(email, password)
         THEN /\ ~fail
              /\ Return(p, c0, Failure(op, NewAppError(op, "ErrInvalidInput",
                                        "email and password are required", 400)),
                        NoNote)
              /\ UNCHANGED <<store, now, advances, jwtExpiry, nextId, faults, issued,
                             known, alone, raced>>
         ELSE LET existing == kvGet(store, key, how)
                  h == GenerateFromPassword(password, BcryptDefaultCost, salt)
                  c1 == [c0 EXCEPT !.nofault = ~fail, !.calls.get = 1]
                  c2 == [c1 EXCEPT !.calls.hash = 1]
              IN  /\ faults' = faults + Count(fail)
                  /\ Possible(store, key, how)
                  /\ IF ~existing.isnil
                     THEN /\ Return(p, c1, Failure(op, NewAppError(op, "ErrUserAlreadyExists",
                                                    "user already exists", 409)),
                                    Note(key, fail, TRUE, fail))
                          /\ UNCHANGED <<store, now, advances, jwtExpiry, nextId, issued,
                                         known, alone, raced>>
                     ELSE IF h.err # ""
                     THEN /\ Return(p, c2, Failure(op, NewAppError(op, h.err,
                                                    "failed to hash password", 500)),
                                    Note(key, fail, TRUE, fail))
                          /\ UNCHANGED <<store, now, advances, jwtExpiry, nextId, issued,
                                         known, alone, raced>>
                     ELSE /\ nextId <= MaxUsers
                          /\ nextId' = nextId + 1
                          /\ Goto(p, "saveUser_email",
                                  [c2 EXCEPT !.user = [ID |-> NewUUID(nextId), Email |-> email,
                                                       PasswordHash |-> h.hash,
                                                       CreatedAt |-> now, UpdatedAt |-> now]])
                          /\ EnterMutation(p, email)
                          /\ UNCHANGED <<store, now, advances, jwtExpiry, issued>>
  /\ UNCHANGED <<deleted, kvmeta>>

\* Mutant: the first write of saveUser is the index entry, not the record.
saveUserEmailIndexFirst(p, fail) ==
  /\ pc[p] = "saveUser_email"
  /\ LET user == call[p].user
         key == getUserIDKey(user.ID)
         w == kvSet(store, key, Bytes(user.Email), fail)
         c == [call[p] EXCEPT !.nofault = @ /\ ~fail, !.calls.set = @ + 1]
     IN  /\ faults' = faults + Count(fail)
         /\ store' = w.store
         /\ kvmeta' = Updated(kvmeta, key, UpdateParams(NoOptions), now, fail)
         /\ IF w.err # ""
            THEN /\ Return(p, c, Failure(c.op, NewAppError("Client.saveUser", w.err,
                                          "failed to save user", 500)),
                           Note(key, ~c.nofault, alone[p], fail))
                 /\ LeaveMutation(p, user.Email, Unknown(user.Email))
            ELSE /\ Goto(p, "saveUser_id", c)
                 /\ UNCHANGED <<known, alone, raced>>
  /\ UNCHANGED <<now, advances, jwtExpiry, nextId, issued>>
  /\ UNCHANGED deleted

\* saveUser, first write: the serialized record under the email key.
saveUserEmail(p, fail) ==
  /\ pc[p] = "saveUser_email"
  /\ LET user == call[p].user
         key == getUserKey(user.Email)
         w == kvSet(store, key, toJSON(user), fail)
         c == [call[p] EXCEPT !.nofault = @ /\ ~fail, !.calls.set = @ + 1]
     IN  /\ faults' = faults + Count(fail)
         /\ store' = w.store
         /\ kvmeta' = Updated(kvmeta, key, UpdateParams(NoOptions), now, fail)
         /\ IF w.err # ""
            THEN /\ Return(p, c, Failure(c.op, NewAppError("Client.saveUser", w.err,
                                          "failed to save user", 500)),
                           Note(key, ~c.nofault, alone[p], fail))
                 /\ LeaveMutation(p, user.Email, Unknown(user.Email))
            ELSE /\ Goto(p, "saveUser_id", c)
                 /\ UNCHANGED <<known, alone, raced>>
  /\ UNCHANGED <<now, advances, jwtExpiry, nextId, issued>>
  /\ UNCHANGED deleted

\* Mutant: the error of the second write is dropped and Register reports success.
saveUserIDSwallow(p, fail) ==
  /\ pc[p] = "saveUser_id"
  /\ LET user == call[p].user
         key == getUserIDKey(user.ID)
         w == kvSet(store, key, Bytes(user.Email), fail)
         c == [call[p] EXCEPT !.nofault = @ /\ ~fail, !.calls.set = @ + 1]
     IN  /\ faults' = faults + Count(fail)
         /\ store' = w.store
         /\ kvmeta' = Updated(kvmeta, key, UpdateParams(NoOptions), now, fail)
         /\ Return(p, c, [NoRes EXCEPT !.op = c.op, !.ok = TRUE, !.user = user],
                   Note(key, ~c.nofault, alone[p], fail))
         /\ LeaveMutation(p, user.Email,
                          IF w.err # "" THEN Partial(user.Email, user.ID, c.password)
                          ELSE Registered(user.Email, user.ID, c.password))
  /\ UNCHANGED <<now, advances, jwtExpiry, nextId, issued>>
  /\ UNCHANGED deleted

\* saveUser, second write: the email under the id key; then Register returns.
saveUserID(p, fail) ==
  /\ pc[p] = "saveUser_id"
  /\ LET user == call[p].user
         key == getUserIDKey(user.ID)
         w == kvSet(store, key, Bytes(user.Email), fail)
         c == [call[p] EXCEPT !.nofault = @ /\ ~fail, !.calls.set = @ + 1]
     IN  /\ faults' = faults + Count(fail)
         /\ store' = w.store
         /\ kvmeta' = Updated(kvmeta, key, UpdateParams(NoOptions), now, fail)
         /\ IF w.err # ""
            THEN /\ Return(p, c, Failure(c.op, NewAppError("Client.saveUser", w.err,
                                          "failed to save user ID mapping", 500)),
                           Note(key, ~c.nofault, alone[p], fail))
                 /\ LeaveMutation(p, user.Email,
                                  Partial(user.Email, user.ID, c.password))
            ELSE /\ Return(p, c, [NoRes EXCEPT !.op = c.op, !.ok = TRUE, !.user = user],
                           Note(key, ~c.nofault, alone[p], fail))
                 /\ LeaveMutation(p, user.Email,
                                  Registered(user.Email, user.ID, c.password))
  /\ UNCHANGED <<now, advances, jwtExpiry, nextId, issued>>
  /\ UNCHANGED deleted

\* ------------------------------------------------------------------- Login
\* The ticks that may pass between the clock reads of one Login.
NoDrift == <<0, 0>>
Drifts == {NoDrift, <<1, 0>>, <<0, 1>>}

\* Mutant: the whole record is put into the response.
LoginUserFull(user) == user

\* The UserInfo literal of the LoginResponse: id and email of the record.
LoginUser(user) == [ID |-> user.ID, Email |-> user.Email]

\* Input check, lookup, password check, claims and signature: one store call.
\* The handler reads time.Now() three times, for expiresAt, IssuedAt and
\* NotBefore; drift[1] and drift[2] are the ticks that pass between the reads.
Login(p, email, password, how, drift) ==
  /\ pc[p] = "idle"
  /\ LET fail == Failed(how)
         op == "Client.Login"
         key == getUserKey(email)
         c0 == [NoCall EXCEPT !.store0 = Store0, !.op = op, !.email = email, !.password = password,
                              !.at = now, !.expect = KnownOf(email)]
     IN  IF MissingInput(email, password)
         THEN /\ ~fail /\ drift = NoDrift
              /\ Return(p, c0, Failure(op, NewAppError(op, "ErrInvalidInput",
                                        "email and password are required", 400)),
                        NoNote)
              /\ UNCHANGED <<faults, issued, now, advances>>
         ELSE LET g == getUserByEmail(store, email, how)
                  c1 == [c0 EXCEPT !.nofault = ~fail, !.calls.get = 1]
                  c2 == [c1 EXCEPT !.calls.hash = 1]
                  expiresAt == now + jwtExpiry
                  issuedAt == now + drift[1]
                  notBefore == issuedAt + drift[2]
                  claims == [user_id |-> g.user.ID, email |-> g.user.Email,
                             exp |-> NewNumericDate(expiresAt),
                             iat |-> NewNumericDate(issuedAt),
                             nbf |-> NewNumericDate(notBefore)]
                  tokenString == SignedString("HS256", claims, jwtSecret)
              IN  /\ faults' = faults + Count(fail)
                  /\ Possible(store, key, how)
                  /\ IF g.err # NoErr
                     THEN /\ drift = NoDrift
                          /\ Return(p, c1, Failure(op, NewAppError(op, "ErrUserNotFound",
                                                    "user not found", 404)),
                                    Note(key, fail, TRUE, fail))
                          /\ UNCHANGED <<issued, now, advances>>
                     ELSE IF CompareHashAndPassword(g.user.PasswordHash, password) # ""
                     THEN /\ drift = NoDrift
                          /\ Return(p, c2, Failure(op, NewAppError(op, "ErrInvalidCredentials",
                                                    "invalid credentials", 401)),
                                    Note(key, fail, TRUE, fail))
                          /\ UNCHANGED <<issued, now, advances>>
                     ELSE /\ Cardinality(issued \cup {tokenString}) <= MaxTokens
                          /\ issued' = issued \cup {tokenString}
                          /\ IF notBefore > now
                             THEN /\ advances < MaxAdvances
                                  /\ advances' = advances + 1
                             ELSE UNCHANGED advances
                          /\ now' = notBefore
                          /\ Return(p, c2, [NoRes EXCEPT !.op = op, !.ok = TRUE,
                                                         !.token = tokenString,
                                                         !.expiresAt = expiresAt,
                                                         !.info = LoginUser(g.user)],
                                    Note(key, fail, TRUE, fail))
  /\ store' = Without(store, Expired(kvmeta, now'))
  /\ kvmeta' = Without(kvmeta, Expired(kvmeta, now'))
  /\ UNCHANGED <<jwtExpiry, nextId, known, alone, raced>>
  /\ UNCHANGED deleted

\* ----------------------------------------------- ValidateToken, GetUserByID
\* GetUserByID, first read: the id key gives the email.
LookupID(p, c, how) ==
  LET fail == Failed(how)
      op == "Client.GetUserByID"
      key == getUserIDKey(c.userID)
      g == kvGet(store, key, how)
      c1 == [c EXCEPT !.nofault = ~fail, !.expect = KnownOfId(c.userID),
                      !.calls.get = @ + 1, !.began = deleted]
  IN  /\ faults' = faults + Count(fail)
      /\ Possible(store, key, how)
      /\ IF g.err # ""
         THEN Return(p, c1, Failure(c.op, NewAppError(op, "ErrUserNotFound",
                                     "user not found", 404)),
                     Note(key, fail, TRUE, fail))
         ELSE Goto(p, "getUserByEmail", [c1 EXCEPT !.emailData = String(g.data)])

\* The tokens a caller can present: an issued one, or one made from it.
Presented(base) ==
  { base,
    [base EXCEPT !.claims.email = "mallory@x.com"],
    SignedString(base.alg, base.claims, ForeignSecret),
    SignedString("HS384", base.claims, jwtSecret),
    SignedString("HS512", base.claims, jwtSecret),
    [SignedString("RS256", base.claims, jwtSecret) EXCEPT !.sig.key = "rsa-private"],
    [SignedString("none", base.claims, "") EXCEPT !.sig = NoSig],
    SignedString("HS256", [base.claims EXCEPT !.nbf = @ + Hour, !.exp = @ + Hour], jwtSecret),
    NoToken }

ValidateToken(p, tokenString, how) ==
  /\ pc[p] = "idle"
  /\ LET fail == Failed(how)
         op == "Client.ValidateToken"
         parsed == parseToken(tokenString, now)
         c0 == [NoCall EXCEPT !.store0 = Store0, !.op = op, !.token = tokenString, !.at = now,
                              !.userID = parsed.claims.user_id,
                              !.expect = KnownOfId(tokenString.claims.user_id)]
     IN  IF parsed.err # NoErr
         THEN /\ ~fail
              /\ Return(p, c0, Failure(op, parsed.err), NoNote)
              /\ UNCHANGED faults
         ELSE LookupID(p, c0, how)
  /\ UNCHANGED <<store, now, advances, jwtExpiry, nextId, issued, known, alone, raced>>
  /\ UNCHANGED <<deleted, kvmeta>>

GetUserByID(p, userID, how) ==
  /\ pc[p] = "idle"
  /\ LookupID(p, [NoCall EXCEPT !.store0 = Store0,
                                !.op = "Client.GetUserByID", !.userID = userID, !.at = now],
              how)
  /\ UNCHANGED <<store, now, advances, jwtExpiry, nextId, issued, known, alone, raced>>
  /\ UNCHANGED <<deleted, kvmeta>>

\* Mutant: the second read is skipped and the identity carried by the call
\* (the token's claims, or the id asked for) is returned as the record.
getUserByEmailStepSnapshot(p, how) ==
  /\ pc[p] = "getUserByEmail"
  /\ how = GetOK
  /\ LET fail == Failed(how)
         c == call[p]
         n == Note(getUserKey(c.emailData), ~c.nofault, KnownOfId(c.userID) = c.expect, fail)
         u == [NoUser EXCEPT !.ID = c.userID, !.Email = c.token.claims.email]
     IN  /\ Return(p, c, [NoRes EXCEPT !.op = c.op, !.ok = TRUE, !.user = u], n)
  /\ UNCHANGED <<store, now, advances, jwtExpiry, nextId, faults, issued, known, alone, raced>>
  /\ UNCHANGED <<deleted, kvmeta>>

\* GetUserByID, second read: the record under the email the index gave.
getUserByEmailStep(p, how) ==
  /\ pc[p] = "getUserByEmail"
  /\ LET fail == Failed(how)
         g == getUserByEmail(store, call[p].emailData, how)
         c == [call[p] EXCEPT !.nofault = @ /\ ~fail, !.calls.get = @ + 1]
         n == Note(getUserKey(c.emailData), ~c.nofault, KnownOfId(c.userID) = c.expect, fail)
     IN  /\ faults' = faults + Count(fail)
         /\ Possible(store, getUserKey(call[p].emailData), how)
         /\ IF g.err # NoErr
            THEN Return(p, c, Failure(c.op, g.err), n)
            ELSE Return(p, c, [NoRes EXCEPT !.op = c.op, !.ok = TRUE, !.user = g.user], n)
  /\ UNCHANGED <<store, now, advances, jwtExpiry, nextId, issued, known, alone, raced>>
  /\ UNCHANGED <<deleted, kvmeta>>

\* Mutant: a successful read stamps the record and writes it back.
GetUserByEmailTouch(p, email, how) ==
  /\ pc[p] = "idle"
  /\ LET fail == Failed(how)
         op == "Client.GetUserByEmail"
         g == getUserByEmail(store, email, how)
         c == [NoCall EXCEPT !.store0 = Store0,
                             !.op = op, !.email = email, !.nofault = ~fail, !.at = now,
                             !.expect = KnownOf(email), !.calls.get = 1]
         n == Note(getUserKey(email), fail, TRUE, fail)
     IN  /\ faults' = faults + Count(fail)
         /\ Possible(store, getUserKey(email), how)
         /\ IF g.err # NoErr
            THEN /\ Return(p, c, Failure(op, g.err), n)
                 /\ UNCHANGED store
            ELSE /\ Return(p, [c EXCEPT !.calls.set = 1],
                           [NoRes EXCEPT !.op = op, !.ok = TRUE, !.user = g.user], n)
                 /\ store' = kvSet(store, getUserKey(email),
                                   toJSON([g.user EXCEPT !.UpdatedAt = now + 1]), FALSE).store
  /\ UNCHANGED kvmeta
  /\ UNCHANGED <<now, advances, jwtExpiry, nextId, issued, known, alone, raced>>
  /\ UNCHANGED deleted

GetUserByEmail(p, email, how) ==
  /\ pc[p] = "idle"
  /\ LET fail == Failed(how)
         op == "Client.GetUserByEmail"
         g == getUserByEmail(store, email, how)
         c == [NoCall EXCEPT !.store0 = Store0,
                             !.op = op, !.email = email, !.nofault = ~fail, !.at = now,
                             !.expect = KnownOf(email), !.calls.get = 1]
         n == Note(getUserKey(email), fail, TRUE, fail)
     IN  /\ faults' = faults + Count(fail)
         /\ Possible(store, getUserKey(email), how)
         /\ IF g.err # NoErr
            THEN Return(p, c, Failure(op, g.err), n)
            ELSE Return(p, c, [NoRes EXCEPT !.op = op, !.ok = TRUE, !.user = g.user], n)
  /\ UNCHANGED <<store, now, advances, jwtExpiry, nextId, issued, known, alone, raced>>
  /\ UNCHANGED <<deleted, kvmeta>>

\* -------------------------------------------------------------- DeleteUser
\* Mutant: the lookup's error is ignored and the deletes are issued anyway.
DeleteUserBlind(p, email, how) ==
  /\ pc[p] = "idle"
  /\ LET fail == Failed(how)
         op == "Client.DeleteUser"
         g == getUserByEmail(store, email, how)
         c == [NoCall EXCEPT !.store0 = Store0,
                             !.op = op, !.email = email, !.nofault = ~fail, !.at = now,
                             !.expect = KnownOf(email), !.user = g.user,
                             !.calls.get = 1]
     IN  /\ faults' = faults + Count(fail)
         /\ Possible(store, getUserKey(email), how)
         /\ Goto(p, "del_email", c)
         /\ EnterMutation(p, email)
  /\ UNCHANGED <<store, now, advances, jwtExpiry, nextId, issued>>
  /\ UNCHANGED <<deleted, kvmeta>>

\* The lookup that yields the id; its error is returned as it is.
DeleteUser(p, email, how) ==
  /\ pc[p] = "idle"
  /\ LET fail == Failed(how)
         op == "Client.DeleteUser"
         g == getUserByEmail(store, email, how)
         c == [NoCall EXCEPT !.store0 = Store0,
                             !.op = op, !.email = email, !.nofault = ~fail, !.at = now,
                             !.expect = KnownOf(email), !.user = g.user,
                             !.calls.get = 1]
     IN  /\ faults' = faults + Count(fail)
         /\ Possible(store, getUserKey(email), how)
         /\ IF g.err # NoErr
            THEN /\ Return(p, c, Failure(op, g.err), Note(getUserKey(email), fail, TRUE, fail))
                 /\ UNCHANGED <<known, alone, raced>>
            ELSE /\ Goto(p, "del_email", c)
                 /\ EnterMutation(p, email)
  /\ UNCHANGED <<store, now, advances, jwtExpiry, nextId, issued>>
  /\ UNCHANGED <<deleted, kvmeta>>

\* First delete: the email key.
deleteEmailKey(p, fail) ==
  /\ pc[p] = "del_email"
  /\ LET email == call[p].email
         key == getUserKey(email)
         d == kvDelete(store, key, fail)
         c == [call[p] EXCEPT !.nofault = @ /\ ~fail, !.calls.del = @ + 1]
     IN  /\ faults' = faults + Count(fail)
         /\ store' = d.store
         /\ kvmeta' = Removed(kvmeta, {key}, fail)
         /\ IF d.err # ""
            THEN /\ Return(p, c, Failure(c.op, NewAppError(c.op, d.err,
                                          "failed to delete user", 500)),
                           Note(key, ~c.nofault, alone[p], fail))
                 /\ LeaveMutation(p, email, Unknown(email))
                 /\ UNCHANGED deleted
            ELSE /\ Goto(p, "del_id", c)
                 /\ deleted' = IF deleted.on /\ key \in DOMAIN store
                               THEN [deleted EXCEPT !.removed =
                                       @ \cup {userFromJSON(store[key]).user.ID}]
                               ELSE deleted
                 /\ UNCHANGED <<known, alone, raced>>
  /\ UNCHANGED <<now, advances, jwtExpiry, nextId, issued>>

\* Second delete: the id key of the record looked up; then DeleteUser returns.
deleteIDKey(p, fail) ==
  /\ pc[p] = "del_id"
  /\ LET email == call[p].email
         key == getUserIDKey(call[p].user.ID)
         d == kvDelete(store, key, fail)
         c == [call[p] EXCEPT !.nofault = @ /\ ~fail, !.calls.del = @ + 1]
     IN  /\ faults' = faults + Count(fail)
         /\ store' = d.store
         /\ kvmeta' = Removed(kvmeta, {key}, fail)
         /\ IF d.err # ""
            THEN /\ Return(p, c, Failure(c.op, NewAppError(c.op, d.err,
                                          "failed to delete user ID mapping", 500)),
                           Note(key, ~c.nofault, alone[p], fail))
                 /\ LeaveMutation(p, email, Unknown(email))
                 /\ UNCHANGED deleted
            ELSE /\ Return(p, c, [NoRes EXCEPT !.op = c.op, !.ok = TRUE],
                           Note(key, ~c.nofault, alone[p], fail))
                 /\ LeaveMutation(p, email, Deleted(email, call[p].user.ID))
                 /\ deleted' = IF deleted.on
                               THEN [deleted EXCEPT !.done = @ \cup {call[p].user.ID}]
                               ELSE deleted
  /\ UNCHANGED <<now, advances, jwtExpiry, nextId, issued>>

\* ------------------------------------------------------------------- clock
\* Time passes: one tick, or all but one tick of a token lifetime.  The keys
\* whose expiration is reached leave the namespace.
Jumps == {d \in {1, jwtExpiry - 1} : d > 0}

Advance(d) ==
  /\ advances < MaxAdvances
  /\ now' = now + d
  /\ advances' = advances + 1
  /\ ev' = NoEvent
  /\ store' = Without(store, Expired(kvmeta, now'))
  /\ kvmeta' = Without(kvmeta, Expired(kvmeta, now'))
  /\ known' = [x \in Emails |->
                 IF Expired(kvmeta, now') \cap {getUserKey(x), getUserIDKey(known[x].id)} # {}
                 THEN Unknown(x) ELSE known[x]]
  /\ UNCHANGED <<jwtExpiry, nextId, faults, issued, pc, call, alone, raced>>
  /\ UNCHANGED deleted

IDs == {NewUUID(n) : n \in 1..MaxUsers}
Salts == 1..NumSalts
ValidEmails == Emails \ {""}
ValidPasswords == Passwords \ {<<>>}

\* ------------------------------------------------------------------- KVSet
\* The keys and values a caller of the generic KV interface writes: the
\* namespace is the one the user records live in.
KVKeys == {getUserKey("a@x.com"), getUserIDKey(NewUUID(1)), "session:1"}
KVValues == {Bytes("garbage"), Bytes("a@x.com")}

\* The user entries that a change of the given keys touches are no longer
\* established.
Touched(keys, fail) ==
  [x \in Emails |->
     IF ~fail /\ keys \cap {getUserKey(x), getUserIDKey(known[x].id)} # {}
     THEN Unknown(x) ELSE known[x]]

\* KVSet: one Update of the namespace, with the parameters built from opts;
\* its error is wrapped, the key in the message.
KVSet(p, key, value, opts, fail) ==
  /\ pc[p] = "idle"
  /\ LET op == "Client.KVSet"
         w == kvSet(store, key, value, fail)
         c == [NoCall EXCEPT !.store0 = Store0, !.op = op, !.key = key, !.value = value,
                             !.nofault = ~fail, !.at = now, !.calls.set = 1]
         n == Note(key, fail, TRUE, fail)
     IN  /\ faults' = faults + Count(fail)
         /\ store' = w.store
         /\ kvmeta' = Updated(kvmeta, key, UpdateParams(opts), now, fail)
         /\ known' = Touched({key}, fail)
         /\ IF w.err # ""
            THEN Return(p, c, Failure(op, NewAppError(op, w.err,
                                       "failed to set key: " \o key, 500)), n)
            ELSE Return(p, c, [NoRes EXCEPT !.op = op, !.ok = TRUE], n)
  /\ UNCHANGED <<now, advances, jwtExpiry, nextId, issued, alone, raced>>
  /\ UNCHANGED deleted

\* KVDelete: one Delete of the namespace; its error is wrapped, the key in the
\* message.
KVDelete(p, key, fail) ==
  /\ pc[p] = "idle"
  /\ LET op == "Client.KVDelete"
         d == kvDelete(store, key, fail)
         c == [NoCall EXCEPT !.store0 = Store0, !.op = op, !.key = key,
                             !.nofault = ~fail, !.at = now, !.calls.del = 1]
         n == Note(key, fail, TRUE, fail)
     IN  /\ faults' = faults + Count(fail)
         /\ store' = d.store
         /\ kvmeta' = Removed(kvmeta, {key}, fail)
         /\ known' = Touched({key}, fail)
         /\ IF d.err # ""
            THEN Return(p, c, Failure(op, NewAppError(op, d.err,
                                       "failed to delete key: " \o key, 500)), n)
            ELSE Return(p, c, [NoRes EXCEPT !.op = op, !.ok = TRUE], n)
  /\ UNCHANGED <<now, advances, jwtExpiry, nextId, issued, alone, raced>>
  /\ UNCHANGED deleted

\* The key lists a caller hands to KVDeleteBulk, as the sets of their keys.
KVKeyLists == SUBSET KVKeys \ {{}}

\* KVDeleteBulk: one BulkDelete of the namespace; it removes every listed key
\* or, when the call fails, none.
KVDeleteBulk(p, keys, fail) ==
  /\ pc[p] = "idle"
  /\ LET op == "Client.KVDeleteBulk"
         c == [NoCall EXCEPT !.store0 = Store0, !.op = op,
                             !.nofault = ~fail, !.at = now, !.calls.del = 1]
     IN  /\ faults' = faults + Count(fail)
         /\ store' = IF fail THEN store ELSE Without(store, keys)
         /\ kvmeta' = Removed(kvmeta, keys, fail)
         /\ known' = Touched(keys, fail)
         /\ IF fail
            THEN Return(p, c, Failure(op, NewAppError(op, "kv: request failed",
                                       "failed to delete keys in bulk", 500)),
                        Note("", fail, TRUE, fail))
            ELSE Return(p, c, [NoRes EXCEPT !.op = op, !.ok = TRUE],
                        Note("", fail, TRUE, fail))
  /\ UNCHANGED <<now, advances, jwtExpiry, nextId, issued, alone, raced>>
  /\ UNCHANGED deleted

\* ---------------------------------------------------- internal kv.Client
\* The methods of the internal kv.Client, as functions of the namespace (the
\* values st and what is kept beside them, m) and of the outcome of the store
\* call.  Err of the error returned is the error of the store call.

\* Get: nil and a wrapped error when the request fails and when the read of
\* its body fails.
Get(st, key, how) ==
  LET op == "kv.Get"
      none(err, message) == [data |-> NoBytes, isnil |-> TRUE,
                             err |-> NewAppError(op, err, message, 500)]
  IN  IF how = RequestFailed
      THEN none("kv: request failed", "failed to get key: " \o key)
      ELSE IF key \notin DOMAIN st
      THEN none("kv: key not found", "failed to get key: " \o key)
      ELSE IF how = ReadFailed
      THEN none("read: unexpected EOF", "failed to read response for key: " \o key)
      ELSE [data |-> st[key], isnil |-> FALSE, err |-> NoErr]

\* Set: one Update with the parameters built from opts.
Set(st, m, key, value, opts, t, fail) ==
  [store |-> IF fail THEN st
             ELSE [k \in (DOMAIN st) \cup {key} |-> IF k = key THEN value ELSE st[k]],
   meta |-> Updated(m, key, UpdateParams(opts), t, fail),
   err |-> IF fail
           THEN NewAppError("kv.Set", "kv: request failed", "failed to set key: " \o key, 500)
           ELSE NoErr]

Delete(st, m, key, fail) ==
  [store |-> IF fail THEN st ELSE Without(st, {key}),
   meta |-> Removed(m, {key}, fail),
   err |-> IF fail
           THEN NewAppError("kv.Delete", "kv: request failed",
                            "failed to delete key: " \o key, 500)
           ELSE NoErr]

DeleteBulk(st, m, keys, fail) ==
  [store |-> IF fail THEN st ELSE Without(st, keys),
   meta |-> Removed(m, keys, fail),
   err |-> IF fail
           THEN NewAppError("kv.DeleteBulk", "kv: request failed",
                            "failed to delete keys in bulk", 500)
           ELSE NoErr]

\* A caller of the internal kv.Client writes or deletes on the namespace.
kvClientCall(p, op, key, value, keys, r, fail) ==
  /\ pc[p] = "idle"
  /\ faults' = faults + Count(fail)
  /\ store' = r.store
  /\ kvmeta' = r.meta
  /\ known' = Touched(keys, fail)
  /\ Return(p, [NoCall EXCEPT !.store0 = Store0, !.op = op, !.key = key, !.value = value,
                              !.nofault = ~fail, !.at = now],
            [NoRes EXCEPT !.op = op, !.ok = r.err = NoErr, !.err = r.err],
            Note(key, fail, TRUE, fail))
  /\ UNCHANGED <<now, advances, jwtExpiry, nextId, issued, alone, raced, deleted>>

kvClientSet(p, key, value, opts, fail) ==
  kvClientCall(p, "kv.Set", key, value, {key},
               Set(store, kvmeta, key, value, opts, now, fail), fail)

kvClientDelete(p, key, fail) ==
  kvClientCall(p, "kv.Delete", key, NoBytes, {key}, Delete(store, kvmeta, key, fail), fail)

kvClientDeleteBulk(p, keys, fail) ==
  kvClientCall(p, "kv.DeleteBulk", "", NoBytes, keys,
               DeleteBulk(store, kvmeta, keys, fail), fail)

\* ------------------------------------------------- internal auth.Service
\* The lifetime the server is configured with: LoadConfig sets it to 24.
ServerExpirationHours == 24

\* NewService: the lifetime is the configured hours, with no default.
NewService(expirationHours) == expirationHours * Hour

\* The handlers of auth.Service run alone, each as a function of the store it
\* finds, its inputs and the outcomes of its store calls, in call order.
NoFails == <<GetOK, FALSE, FALSE>>
NoReadFails == <<GetOK, GetOK>>

ServiceRes == [ok |-> FALSE, err |-> NoErr, user |-> NoUser, token |-> NoToken,
               expiresAt |-> 0, info |-> NoUserInfo, claims |-> NoClaims,
               store |-> <<>>]

ServiceFail(st, op, err, message, code) ==
  [ServiceRes EXCEPT !.err = NewAppError(op, err, message, code), !.store = st]

ServiceRegister(st, email, password, salt, id, t, fails) ==
  LET op == "auth.Register"
      userKey == getUserKey(email)
      existing == Get(st, userKey, fails[1])
      h == GenerateFromPassword(password, BcryptDefaultCost, salt)
      user == [ID |-> id, Email |-> email, PasswordHash |-> h.hash,
               CreatedAt |-> t, UpdatedAt |-> t]
      w1 == Set(st, <<>>, userKey, toJSON(user), NoOptions, t, fails[2])
      w2 == Set(w1.store, <<>>, getUserIDKey(id), Bytes(email), NoOptions, t, fails[3])
  IN  IF MissingInput(email, password)
      THEN ServiceFail(st, op, "ErrInvalidInput", "email and password are required", 400)
      ELSE IF ~existing.isnil
      THEN ServiceFail(st, op, "ErrUserAlreadyExists", "user already exists", 409)
      ELSE IF h.err # ""
      THEN ServiceFail(st, op, h.err, "failed to hash password", 500)
      ELSE IF w1.err # NoErr
      THEN ServiceFail(w1.store, op, w1.err.Err, "failed to save user", 500)
      ELSE IF w2.err # NoErr
      THEN ServiceFail(w2.store, op, w2.err.Err, "failed to save user ID mapping", 500)
      ELSE [ServiceRes EXCEPT !.ok = TRUE, !.user = user, !.store = w2.store]

ServiceLogin(st, email, password, t, expiration, how, drift) ==
  LET op == "auth.Login"
      g == Get(st, getUserKey(email), how)
      u == userFromJSON(g.data)
      expiresAt == t + expiration
      issuedAt == t + drift[1]
      notBefore == issuedAt + drift[2]
      claims == [user_id |-> u.user.ID, email |-> u.user.Email,
                 exp |-> NewNumericDate(expiresAt),
                 iat |-> NewNumericDate(issuedAt),
                 nbf |-> NewNumericDate(notBefore)]
  IN  IF MissingInput(email, password)
      THEN ServiceFail(st, op, "ErrInvalidInput", "email and password are required", 400)
      ELSE IF g.err # NoErr
      THEN ServiceFail(st, op, "ErrUserNotFound", "user not found", 404)
      ELSE IF u.err # ""
      THEN ServiceFail(st, op, u.err, "failed to parse user data", 500)
      ELSE IF CompareHashAndPassword(u.user.PasswordHash, password) # ""
      THEN ServiceFail(st, op, "ErrInvalidCredentials", "invalid credentials", 401)
      ELSE [ServiceRes EXCEPT !.ok = TRUE, !.store = st,
                              !.token = SignedString("HS256", claims, jwtSecret),
                              !.expiresAt = expiresAt,
                              !.info = ToUserInfo(u.user)]

\* Service.ValidateToken parses the token and returns its claims: no store call.
ServiceValidateToken(st, tok, t) ==
  LET op == "auth.ValidateToken"
      e == ParseWithClaims(tok, jwtSecret, t)
  IN  IF e # ""
      THEN ServiceFail(st, op, e, "invalid token", 401)
      ELSE [ServiceRes EXCEPT !.ok = TRUE, !.claims = tok.claims, !.store = st]

ServiceGetUser(st, email, how) ==
  LET op == "auth.GetUser"
      g == Get(st, getUserKey(email), how)
      u == userFromJSON(g.data)
  IN  IF g.err # NoErr
      THEN ServiceFail(st, op, "ErrUserNotFound", "user not found", 404)
      ELSE IF u.err # ""
      THEN ServiceFail(st, op, u.err, "failed to parse user data", 500)
      ELSE [ServiceRes EXCEPT !.ok = TRUE, !.user = u.user, !.store = st]

ServiceGetUserByID(st, userID, fails) ==
  LET op == "auth.GetUserByID"
      g == Get(st, getUserIDKey(userID), fails[1])
  IN  IF g.err # NoErr
      THEN ServiceFail(st, op, "ErrUserNotFound", "user not found", 404)
      ELSE ServiceGetUser(st, String(g.data), fails[2])

ServiceDeleteUser(st, email, fails) ==
  LET op == "auth.DeleteUser"
      g == ServiceGetUser(st, email, fails[1])
      d1 == Delete(st, <<>>, getUserKey(email), fails[2])
      d2 == Delete(d1.store, <<>>, getUserIDKey(g.user.ID), fails[3])
  IN  IF ~g.ok
      THEN g
      ELSE IF d1.err # NoErr
      THEN ServiceFail(d1.store, op, d1.err.Err, "failed to delete user", 500)
      ELSE IF d2.err # NoErr
      THEN ServiceFail(d2.store, op, d2.err.Err, "failed to delete user ID mapping", 500)
      ELSE [ServiceRes EXCEPT !.ok = TRUE, !.store = d2.store]

\* The handlers of auth.Service as the server runs them: one step for each
\* store call, so that the requests of other callers come in between.

\* Service.Register: input check, existence probe (its error is dropped),
\* hash, new record.
ServiceRegisterCall(p, email, password, how, salt) ==
  /\ pc[p] = "idle"
  /\ LET fail == Failed(how)
         op == "auth.Register"
         userKey == getUserKey(email)
         c0 == [NoCall EXCEPT !.store0 = Store0, !.op = op, !.email = email,
                              !.password = password, !.at = now,
                              !.expect = KnownOf(email), !.began = deleted]
     IN  IF MissingInput(email, password)
         THEN /\ ~fail
              /\ Return(p, c0, Failure(op, NewAppError(op, "ErrInvalidInput",
                                        "email and password are required", 400)),
                        NoNote)
              /\ UNCHANGED <<nextId, faults, known, alone, raced>>
         ELSE LET existing == Get(store, userKey, how)
                  h == GenerateFromPassword(password, BcryptDefaultCost, salt)
                  c1 == [c0 EXCEPT !.nofault = ~fail, !.calls.get = 1]
                  c2 == [c1 EXCEPT !.calls.hash = 1]
              IN  /\ faults' = faults + Count(fail)
                  /\ Possible(store, userKey, how)
                  /\ IF ~existing.isnil
                     THEN /\ Return(p, c1, Failure(op, NewAppError(op, "ErrUserAlreadyExists",
                                                    "user already exists", 409)),
                                    Note(userKey, fail, TRUE, fail))
                          /\ UNCHANGED <<nextId, known, alone, raced>>
                     ELSE IF h.err # ""
                     THEN /\ Return(p, c2, Failure(op, NewAppError(op, h.err,
                                                    "failed to hash password", 500)),
                                    Note(userKey, fail, TRUE, fail))
                          /\ UNCHANGED <<nextId, known, alone, raced>>
                     ELSE /\ nextId <= MaxUsers
                          /\ nextId' = nextId + 1
                          /\ Goto(p, "Service.Register_email",
                                  [c2 EXCEPT !.user = [ID |-> NewUUID(nextId), Email |-> email,
                                                       PasswordHash |-> h.hash,
                                                       CreatedAt |-> now, UpdatedAt |-> now]])
                          /\ EnterMutation(p, email)
  /\ UNCHANGED <<store, now, advances, jwtExpiry, issued, deleted, kvmeta>>

\* Service.Register, first write: the serialized record under the email key.
ServiceSetUser(p, fail) ==
  /\ pc[p] = "Service.Register_email"
  /\ LET user == call[p].user
         key == getUserKey(user.Email)
         w == Set(store, kvmeta, key, toJSON(user), NoOptions, now, fail)
         c == [call[p] EXCEPT !.nofault = @ /\ ~fail, !.calls.set = @ + 1]
     IN  /\ faults' = faults + Count(fail)
         /\ store' = w.store
         /\ kvmeta' = w.meta
         /\ IF w.err # NoErr
            THEN /\ Return(p, c, Failure(c.op, NewAppError(c.op, w.err.Err,
                                          "failed to save user", 500)),
                           Note(key, ~c.nofault, alone[p], fail))
                 /\ LeaveMutation(p, user.Email, Unknown(user.Email))
            ELSE /\ Goto(p, "Service.Register_id", c)
                 /\ UNCHANGED <<known, alone, raced>>
  /\ UNCHANGED <<now, advances, jwtExpiry, nextId, issued, deleted>>

\* Service.Register, second write: the email under the id key; then it returns.
ServiceSetUserID(p, fail) ==
  /\ pc[p] = "Service.Register_id"
  /\ LET user == call[p].user
         key == getUserIDKey(user.ID)
         w == Set(store, kvmeta, key, Bytes(user.Email), NoOptions, now, fail)
         c == [call[p] EXCEPT !.nofault = @ /\ ~fail, !.calls.set = @ + 1]
     IN  /\ faults' = faults + Count(fail)
         /\ store' = w.store
         /\ kvmeta' = w.meta
         /\ IF w.err # NoErr
            THEN /\ Return(p, c, Failure(c.op, NewAppError(c.op, w.err.Err,
                                          "failed to save user ID mapping", 500)),
                           Note(key, ~c.nofault, alone[p], fail))
                 /\ LeaveMutation(p, user.Email,
                                  Partial(user.Email, user.ID, c.password))
            ELSE /\ Return(p, c, [NoRes EXCEPT !.op = c.op, !.ok = TRUE, !.user = user],
                           Note(key, ~c.nofault, alone[p], fail))
                 /\ LeaveMutation(p, user.Email,
                                  Registered(user.Email, user.ID, c.password))
  /\ UNCHANGED <<now, advances, jwtExpiry, nextId, issued, deleted>>

\* Service.Login: input check, lookup, decoding, password check, claims and
\* signature: one store call.  The lifetime is the one NewService was given.
ServiceLoginCall(p, email, password, how, drift) ==
  /\ pc[p] = "idle"
  /\ LET fail == Failed(how)
         op == "auth.Login"
         key == getUserKey(email)
         c0 == [NoCall EXCEPT !.store0 = Store0, !.op = op, !.email = email,
                              !.password = password, !.at = now,
                              !.expect = KnownOf(email), !.began = deleted]
     IN  IF MissingInput(email, password)
         THEN /\ ~fail /\ drift = NoDrift
              /\ Return(p, c0, Failure(op, NewAppError(op, "ErrInvalidInput",
                                        "email and password are required", 400)),
                        NoNote)
              /\ UNCHANGED <<faults, issued, now, advances>>
         ELSE LET g == Get(store, key, how)
                  u == userFromJSON(g.data)
                  c1 == [c0 EXCEPT !.nofault = ~fail, !.calls.get = 1]
                  c2 == [c1 EXCEPT !.calls.hash = 1]
                  expiresAt == now + NewService(ServerExpirationHours)
                  issuedAt == now + drift[1]
                  notBefore == issuedAt + drift[2]
                  claims == [user_id |-> u.user.ID, email |-> u.user.Email,
                             exp |-> NewNumericDate(expiresAt),
                             iat |-> NewNumericDate(issuedAt),
                             nbf |-> NewNumericDate(notBefore)]
                  tokenString == SignedString("HS256", claims, jwtSecret)
                  n == Note(key, fail, TRUE, fail)
              IN  /\ faults' = faults + Count(fail)
                  /\ Possible(store, key, how)
                  /\ IF g.err # NoErr
                     THEN /\ drift = NoDrift
                          /\ Return(p, c1, Failure(op, NewAppError(op, "ErrUserNotFound",
                                                    "user not found", 404)), n)
                          /\ UNCHANGED <<issued, now, advances>>
                     ELSE IF u.err # ""
                     THEN /\ drift = NoDrift
                          /\ Return(p, c1, Failure(op, NewAppError(op, u.err,
                                                    "failed to parse user data", 500)), n)
                          /\ UNCHANGED <<issued, now, advances>>
                     ELSE IF CompareHashAndPassword(u.user.PasswordHash, password) # ""
                     THEN /\ drift = NoDrift
                          /\ Return(p, c2, Failure(op, NewAppError(op, "ErrInvalidCredentials",
                                                    "invalid credentials", 401)), n)
                          /\ UNCHANGED <<issued, now, advances>>
                     ELSE /\ Cardinality(issued \cup {tokenString}) <= MaxTokens
                          /\ issued' = issued \cup {tokenString}
                          /\ IF notBefore > now
                             THEN /\ advances < MaxAdvances
                                  /\ advances' = advances + 1
                             ELSE UNCHANGED advances
                          /\ now' = notBefore
                          /\ Return(p, c2, [NoRes EXCEPT !.op = op, !.ok = TRUE,
                                                         !.token = tokenString,
                                                         !.expiresAt = expiresAt,
                                                         !.info = ToUserInfo(u.user)], n)
  /\ store' = Without(store, Expired(kvmeta, now'))
  /\ kvmeta' = Without(kvmeta, Expired(kvmeta, now'))
  /\ UNCHANGED <<jwtExpiry, nextId, known, alone, raced, deleted>>

\* Service.ValidateToken: the token is parsed and its claims are returned.
ServiceValidateTokenCall(p, tokenString) ==
  /\ pc[p] = "idle"
  /\ LET op == "auth.ValidateToken"
         e == ParseWithClaims(tokenString, jwtSecret, now)
         c == [NoCall EXCEPT !.store0 = Store0, !.op = op, !.token = tokenString,
                             !.at = now, !.userID = tokenString.claims.user_id,
                             !.expect = KnownOfId(tokenString.claims.user_id),
                             !.began = deleted]
     IN  IF e # ""
         THEN Return(p, c, Failure(op, NewAppError(op, e, "invalid token", 401)), NoNote)
         ELSE Return(p, c, [NoRes EXCEPT !.op = op, !.ok = TRUE,
                                         !.claims = tokenString.claims], NoNote)
  /\ UNCHANGED <<store, now, advances, jwtExpiry, nextId, faults, issued,
                 known, alone, raced, deleted, kvmeta>>

\* Service.GetUserByID, first read: the id key gives the email.
ServiceGetUserByIDCall(p, userID, how) ==
  /\ pc[p] = "idle"
  /\ LET fail == Failed(how)
         op == "auth.GetUserByID"
         key == getUserIDKey(userID)
         g == Get(store, key, how)
         c == [NoCall EXCEPT !.store0 = Store0, !.op = op, !.userID = userID, !.at = now,
                             !.nofault = ~fail, !.expect = KnownOfId(userID),
                             !.calls.get = 1, !.began = deleted]
     IN  /\ faults' = faults + Count(fail)
         /\ Possible(store, key, how)
         /\ IF g.err # NoErr
            THEN Return(p, c, Failure(op, NewAppError(op, "ErrUserNotFound",
                                       "user not found", 404)),
                        Note(key, fail, TRUE, fail))
            ELSE Goto(p, "Service.GetUser", [c EXCEPT !.emailData = String(g.data)])
  /\ UNCHANGED <<store, now, advances, jwtExpiry, nextId, issued,
                 known, alone, raced, deleted, kvmeta>>

\* Service.GetUserByID, second read: Service.GetUser of the email the index
\* gave; a record that does not decode is an error of its own.
ServiceGetUserStep(p, how) ==
  /\ pc[p] = "Service.GetUser"
  /\ LET fail == Failed(how)
         op == "auth.GetUser"
         key == getUserKey(call[p].emailData)
         g == Get(store, key, how)
         u == userFromJSON(g.data)
         c == [call[p] EXCEPT !.nofault = @ /\ ~fail, !.calls.get = @ + 1]
         n == Note(key, ~c.nofault, KnownOfId(c.userID) = c.expect, fail)
     IN  /\ faults' = faults + Count(fail)
         /\ Possible(store, key, how)
         /\ IF g.err # NoErr
            THEN Return(p, c, Failure(c.op, NewAppError(op, "ErrUserNotFound",
                                       "user not found", 404)), n)
            ELSE IF u.err # ""
            THEN Return(p, c, Failure(c.op, NewAppError(op, u.err,
                                       "failed to parse user data", 500)), n)
            ELSE Return(p, c, [NoRes EXCEPT !.op = c.op, !.ok = TRUE, !.user = u.user], n)
  /\ UNCHANGED <<store, now, advances, jwtExpiry, nextId, issued,
                 known, alone, raced, deleted, kvmeta>>

\* Service.DeleteUser: the lookup that yields the id, by Service.GetUser, whose
\* error is returned as it is.
ServiceDeleteUserCall(p, email, how) ==
  /\ pc[p] = "idle"
  /\ LET fail == Failed(how)
         op == "auth.DeleteUser"
         key == getUserKey(email)
         g == Get(store, key, how)
         u == userFromJSON(g.data)
         c == [NoCall EXCEPT !.store0 = Store0, !.op = op, !.email = email,
                             !.nofault = ~fail, !.at = now, !.expect = KnownOf(email),
                             !.user = IF g.err = NoErr THEN u.user ELSE NoUser,
                             !.calls.get = 1, !.began = deleted]
         n == Note(key, fail, TRUE, fail)
     IN  /\ faults' = faults + Count(fail)
         /\ Possible(store, key, how)
         /\ IF g.err # NoErr
            THEN /\ Return(p, c, Failure(op, NewAppError("auth.GetUser", "ErrUserNotFound",
                                          "user not found", 404)), n)
                 /\ UNCHANGED <<known, alone, raced>>
            ELSE IF u.err # ""
            THEN /\ Return(p, c, Failure(op, NewAppError("auth.GetUser", u.err,
                                          "failed to parse user data", 500)), n)
                 /\ UNCHANGED <<known, alone, raced>>
            ELSE /\ Goto(p, "Service.Delete_email", c)
                 /\ EnterMutation(p, email)
  /\ UNCHANGED <<store, now, advances, jwtExpiry, nextId, issued, deleted, kvmeta>>

\* Service.DeleteUser, first delete: the email key.
ServiceDeleteUserKey(p, fail) ==
  /\ pc[p] = "Service.Delete_email"
  /\ LET email == call[p].email
         key == getUserKey(email)
         d == Delete(store, kvmeta, key, fail)
         c == [call[p] EXCEPT !.nofault = @ /\ ~fail, !.calls.del = @ + 1]
     IN  /\ faults' = faults + Count(fail)
         /\ store' = d.store
         /\ kvmeta' = d.meta
         /\ IF d.err # NoErr
            THEN /\ Return(p, c, Failure(c.op, NewAppError(c.op, d.err.Err,
                                          "failed to delete user", 500)),
                           Note(key, ~c.nofault, alone[p], fail))
                 /\ LeaveMutation(p, email, Unknown(email))
                 /\ UNCHANGED deleted
            ELSE /\ Goto(p, "Service.Delete_id", c)
                 /\ deleted' = IF deleted.on /\ key \in DOMAIN store
                               THEN [deleted EXCEPT !.removed =
                                       @ \cup {userFromJSON(store[key]).user.ID}]
                               ELSE deleted
                 /\ UNCHANGED <<known, alone, raced>>
  /\ UNCHANGED <<now, advances, jwtExpiry, nextId, issued>>

\* Service.DeleteUser, second delete: the id key of the record looked up; then
\* it returns.
ServiceDeleteIDKey(p, fail) ==
  /\ pc[p] = "Service.Delete_id"
  /\ LET email == call[p].email
         key == getUserIDKey(call[p].user.ID)
         d == Delete(store, kvmeta, key, fail)
         c == [call[p] EXCEPT !.nofault = @ /\ ~fail, !.calls.del = @ + 1]
     IN  /\ faults' = faults + Count(fail)
         /\ store' = d.store
         /\ kvmeta' = d.meta
         /\ IF d.err # NoErr
            THEN /\ Return(p, c, Failure(c.op, NewAppError(c.op, d.err.Err,
                                          "failed to delete user ID mapping", 500)),
                           Note(key, ~c.nofault, alone[p], fail))
                 /\ LeaveMutation(p, email, Unknown(email))
                 /\ UNCHANGED deleted
            ELSE /\ Return(p, c, [NoRes EXCEPT !.op = c.op, !.ok = TRUE],
                           Note(key, ~c.nofault, alone[p], fail))
                 /\ LeaveMutation(p, email, Deleted(email, call[p].user.ID))
                 /\ deleted' = IF deleted.on
                               THEN [deleted EXCEPT !.done = @ \cup {call[p].user.ID}]
                               ELSE deleted
  /\ UNCHANGED <<now, advances, jwtExpiry, nextId, issued>>

\* Concurrent callers: both register and delete, one of them also logs in,
\* validates and reads.  Arguments are well formed, tokens are genuine, store
\* calls may fail, the clock stands still.
Next ==
  \/ \E p \in Procs, e \in ValidEmails, g \in GetChoices :
       Register(p, e, <<1>>, g, 1)
  \/ \E p \in Procs, f \in FailChoices : saveUserEmail(p, f)
  \/ \E p \in Procs, f \in FailChoices : saveUserID(p, f)
  \/ \E e \in ValidEmails, pw \in ValidPasswords, g \in GetChoices :
       Login(Caller, e, pw, g, NoDrift)
  \/ \E t \in issued, g \in GetChoices : ValidateToken(Caller, t, g)
  \/ \E id \in IDs, g \in GetChoices : GetUserByID(Caller, id, g)
  \/ \E g \in GetChoices : getUserByEmailStep(Caller, g)
  \/ \E e \in ValidEmails, g \in GetChoices : GetUserByEmail(Caller, e, g)
  \/ \E p \in Procs, e \in ValidEmails, g \in GetChoices : DeleteUser(p, e, g)
  \/ \E p \in Procs, f \in FailChoices : deleteEmailKey(p, f)
  \/ \E p \in Procs, f \in FailChoices : deleteIDKey(p, f)

Spec == Init /\ [][Next]_vars

\* The concurrent callers when they only register and delete; store calls may
\* fail, the clock stands still.
NextOverlap ==
  \/ \E p \in Procs, e \in ValidEmails, g \in GetChoices :
       Register(p, e, <<1>>, g, 1)
  \/ \E p \in Procs, f \in FailChoices : saveUserEmail(p, f)
  \/ \E p \in Procs, f \in FailChoices : saveUserID(p, f)
  \/ \E p \in Procs, e \in ValidEmails, g \in GetChoices : DeleteUser(p, e, g)
  \/ \E p \in Procs, f \in FailChoices : deleteEmailKey(p, f)
  \/ \E p \in Procs, f \in FailChoices : deleteIDKey(p, f)

SpecOverlap == Init /\ [][NextOverlap]_vars

\* The same state, the history of deletions being observed from here on.
InitObserved ==
  /\ store = <<>>
  /\ now = StartTime
  /\ advances = 0
  /\ jwtExpiry = NewClient(0)
  /\ nextId = 1
  /\ faults = 0
  /\ issued = {}
  /\ pc = [p \in Procs |-> "idle"]
  /\ call = [p \in Procs |-> NoCall]
  /\ ev = NoEvent
  /\ known = [e \in Emails |-> Absent(e)]
  /\ alone = [p \in Procs |-> TRUE]
  /\ raced = {}
  /\ deleted = NoneDeleted
  /\ kvmeta = <<>>

\* The concurrent callers, observed.
SpecRace == InitObserved /\ [][Next]_vars

\* One caller with any arguments (empty ones, overlong and NUL-holding
\* passwords, an id where an email is expected) and any salt; store calls may
\* fail, tokens are genuine, the clock stands still.
NextSeq ==
  \/ \E e \in Emails, pw \in RegisterPasswords, g \in GetChoices :
       \E salt \in Salts : Register(Caller, e, pw, g, salt)
  \/ \E f \in FailChoices : saveUserEmail(Caller, f)
  \/ \E f \in FailChoices : saveUserID(Caller, f)
  \/ \E e \in Emails, pw \in Passwords \cup OddPasswords, g \in GetChoices :
       Login(Caller, e, pw, g, NoDrift)
  \/ \E t \in issued, g \in GetChoices : ValidateToken(Caller, t, g)
  \/ \E id \in IDs, g \in GetChoices : GetUserByID(Caller, id, g)
  \/ \E g \in GetChoices : getUserByEmailStep(Caller, g)
  \/ \E e \in Emails, g \in GetChoices : GetUserByEmail(Caller, e, g)
  \/ \E e \in Emails \cup IDs, g \in GetChoices : DeleteUser(Caller, e, g)
  \/ \E f \in FailChoices : deleteEmailKey(Caller, f)
  \/ \E f \in FailChoices : deleteIDKey(Caller, f)

SpecSeq == Init /\ [][NextSeq]_vars

\* The single caller, observed.
SpecHistory == InitObserved /\ [][NextSeq]_vars

\* One caller under a running clock, with either configured lifetime and any
\* token a caller can present; every store call succeeds.
InitClock ==
  /\ store = <<>>
  /\ now = StartTime
  /\ advances = 0
  /\ jwtExpiry \in {NewClient(h) : h \in ConfigHours}
  /\ nextId = 1
  /\ faults = 0
  /\ issued = {}
  /\ pc = [p \in Procs |-> "idle"]
  /\ call = [p \in Procs |-> NoCall]
  /\ ev = NoEvent
  /\ known = [e \in Emails |-> Absent(e)]
  /\ alone = [p \in Procs |-> TRUE]
  /\ raced = {}
  /\ deleted = Unobserved
  /\ kvmeta = <<>>

NextClock ==
  \/ \E e \in ValidEmails, pw \in ValidPasswords : Register(Caller, e, pw, GetOK, 1)
  \/ saveUserEmail(Caller, FALSE)
  \/ saveUserID(Caller, FALSE)
  \/ \E e \in ValidEmails, pw \in ValidPasswords, drift \in Drifts :
       Login(Caller, e, pw, GetOK, drift)
  \/ \E base \in issued : \E t \in Presented(base) : ValidateToken(Caller, t, GetOK)
  \/ \E id \in IDs : GetUserByID(Caller, id, GetOK)
  \/ getUserByEmailStep(Caller, GetOK)
  \/ \E e \in ValidEmails : GetUserByEmail(Caller, e, GetOK)
  \/ \E e \in ValidEmails : DeleteUser(Caller, e, GetOK)
  \/ deleteEmailKey(Caller, FALSE)
  \/ deleteIDKey(Caller, FALSE)
  \/ \E d \in Jumps : Advance(d)

SpecClock == InitClock /\ [][NextClock]_vars

\* The same caller and clock, under any lifetime that NewClient accepts.
InitConfig ==
  /\ store = <<>>
  /\ now = StartTime
  /\ advances = 0
  /\ jwtExpiry \in {NewClient(h) : h \in AcceptedHours}
  /\ nextId = 1
  /\ faults = 0
  /\ issued = {}
  /\ pc = [p \in Procs |-> "idle"]
  /\ call = [p \in Procs |-> NoCall]
  /\ ev = NoEvent
  /\ known = [e \in Emails |-> Absent(e)]
  /\ alone = [p \in Procs |-> TRUE]
  /\ raced = {}
  /\ deleted = Unobserved
  /\ kvmeta = <<>>

SpecConfig == InitConfig /\ [][NextClock]_vars

\* One caller of the user operations and of the Client's generic KV interface
\* on the same namespace; only the generic writes and deletes may fail, the
\* writes are plain and the clock stands still.
NextKV ==
  \/ \E e \in ValidEmails, pw \in ValidPasswords : Register(Caller, e, pw, GetOK, 1)
  \/ saveUserEmail(Caller, FALSE)
  \/ saveUserID(Caller, FALSE)
  \/ \E e \in ValidEmails, pw \in ValidPasswords : Login(Caller, e, pw, GetOK, NoDrift)
  \/ \E t \in issued : ValidateToken(Caller, t, GetOK)
  \/ \E id \in IDs : GetUserByID(Caller, id, GetOK)
  \/ getUserByEmailStep(Caller, GetOK)
  \/ \E e \in ValidEmails : GetUserByEmail(Caller, e, GetOK)
  \/ \E e \in ValidEmails : DeleteUser(Caller, e, GetOK)
  \/ deleteEmailKey(Caller, FALSE)
  \/ deleteIDKey(Caller, FALSE)
  \/ \E key \in KVKeys, value \in KVValues, opts \in PlainOptions, f \in FailChoices :
       KVSet(Caller, key, value, opts, f)
  \/ \E key \in KVKeys, f \in FailChoices : KVDelete(Caller, key, f)
  \/ \E keys \in KVKeyLists, f \in FailChoices : KVDeleteBulk(Caller, keys, f)

SpecKV == Init /\ [][NextKV]_vars

\* One caller registers and logs in and uses both generic KV interfaces, the
\* Client's and the internal kv.Client's, on the same namespace, under a
\* running clock: writes carry any options, keys written with a TTL expire,
\* and only the generic writes and deletes may fail.
NamespaceKeys == {getUserKey("a@x.com"), "session:1"}
NamespaceKeyLists == SUBSET NamespaceKeys \ {{}}

NextNamespace ==
  \/ \E e \in ValidEmails : Register(Caller, e, <<1>>, GetOK, 1)
  \/ saveUserEmail(Caller, FALSE)
  \/ saveUserID(Caller, FALSE)
  \/ \E e \in ValidEmails : Login(Caller, e, <<1>>, GetOK, NoDrift)
  \/ \E key \in NamespaceKeys, opts \in WriteOptions, f \in FailChoices :
       KVSet(Caller, key, Bytes("garbage"), opts, f)
  \/ \E key \in NamespaceKeys, f \in FailChoices : KVDelete(Caller, key, f)
  \/ \E keys \in NamespaceKeyLists, f \in FailChoices : KVDeleteBulk(Caller, keys, f)
  \/ \E key \in NamespaceKeys, opts \in WriteOptions, f \in FailChoices :
       kvClientSet(Caller, key, Bytes("garbage"), opts, f)
  \/ \E key \in NamespaceKeys, f \in FailChoices : kvClientDelete(Caller, key, f)
  \/ \E keys \in NamespaceKeyLists, f \in FailChoices : kvClientDeleteBulk(Caller, keys, f)
  \/ \E d \in Jumps : Advance(d)

SpecNamespace == Init /\ [][NextNamespace]_vars

\* One caller registers, reads, logs in and deletes under two emails that
\* differ in letter case only; every store call succeeds.
NextCase ==
  \/ \E e \in CaseEmails, pw \in ValidPasswords : Register(Caller, e, pw, GetOK, 1)
  \/ saveUserEmail(Caller, FALSE)
  \/ saveUserID(Caller, FALSE)
  \/ \E e \in CaseEmails, pw \in ValidPasswords : Login(Caller, e, pw, GetOK, NoDrift)
  \/ \E t \in issued : ValidateToken(Caller, t, GetOK)
  \/ \E id \in IDs : GetUserByID(Caller, id, GetOK)
  \/ getUserByEmailStep(Caller, GetOK)
  \/ \E e \in CaseEmails : GetUserByEmail(Caller, e, GetOK)
  \/ \E e \in CaseEmails : DeleteUser(Caller, e, GetOK)
  \/ deleteEmailKey(Caller, FALSE)
  \/ deleteIDKey(Caller, FALSE)

SpecCase == Init /\ [][NextCase]_vars

\* One caller registers, logs in and validates, and tries again after a
\* failure: the existence probe of Register and the index write of saveUser
\* may fail, every other store call succeeds, the clock stands still.
RetryFailChoices == IF faults < MaxRetryFaults THEN {FALSE, TRUE} ELSE {FALSE}
RetryGetChoices == IF faults < MaxRetryFaults THEN GetOutcomes ELSE {GetOK}

NextRetry ==
  \/ \E e \in ValidEmails, pw \in ValidPasswords, g \in RetryGetChoices :
       Register(Caller, e, pw, g, 1)
  \/ saveUserEmail(Caller, FALSE)
  \/ \E f \in RetryFailChoices : saveUserID(Caller, f)
  \/ \E e \in ValidEmails, pw \in ValidPasswords : Login(Caller, e, pw, GetOK, NoDrift)
  \/ \E t \in issued : ValidateToken(Caller, t, GetOK)
  \/ getUserByEmailStep(Caller, GetOK)
  \/ \E e \in ValidEmails : GetUserByEmail(Caller, e, GetOK)

SpecRetry == Init /\ [][NextRetry]_vars

\* One caller of the Client and of the server's auth.Service on one store:
\* the store calls of the Client succeed, those of the Service may fail; the
\* clock stands still and the history of deletions is observed.
InitService ==
  /\ store = <<>>
  /\ now = StartTime
  /\ advances = 0
  /\ jwtExpiry = NewClient(0)
  /\ nextId = 1
  /\ faults = 0
  /\ issued = {}
  /\ pc = [p \in Procs |-> "idle"]
  /\ call = [p \in Procs |-> NoCall]
  /\ ev = NoEvent
  /\ known = [e \in Emails |-> Absent(e)]
  /\ alone = [p \in Procs |-> TRUE]
  /\ raced = {}
  /\ deleted = NoneDeleted
  /\ kvmeta = <<>>

NextService ==
  \/ \E e \in ValidEmails, pw \in ValidPasswords : Register(Caller, e, pw, GetOK, 1)
  \/ saveUserEmail(Caller, FALSE)
  \/ saveUserID(Caller, FALSE)
  \/ \E e \in ValidEmails, pw \in ValidPasswords : Login(Caller, e, pw, GetOK, NoDrift)
  \/ \E t \in issued : ValidateToken(Caller, t, GetOK)
  \/ \E id \in IDs : GetUserByID(Caller, id, GetOK)
  \/ getUserByEmailStep(Caller, GetOK)
  \/ \E e \in ValidEmails : DeleteUser(Caller, e, GetOK)
  \/ deleteEmailKey(Caller, FALSE)
  \/ deleteIDKey(Caller, FALSE)
  \/ \E e \in ValidEmails, pw \in ValidPasswords, g \in GetChoices :
       ServiceRegisterCall(Caller, e, pw, g, 1)
  \/ \E f \in FailChoices : ServiceSetUser(Caller, f)
  \/ \E f \in FailChoices : ServiceSetUserID(Caller, f)
  \/ \E e \in ValidEmails, pw \in ValidPasswords, g \in GetChoices :
       ServiceLoginCall(Caller, e, pw, g, NoDrift)
  \/ \E t \in issued : ServiceValidateTokenCall(Caller, t)
  \/ \E id \in IDs, g \in GetChoices : ServiceGetUserByIDCall(Caller, id, g)
  \/ \E g \in GetChoices : ServiceGetUserStep(Caller, g)
  \/ \E e \in ValidEmails, g \in GetChoices : ServiceDeleteUserCall(Caller, e, g)
  \/ \E f \in FailChoices : ServiceDeleteUserKey(Caller, f)
  \/ \E f \in FailChoices : ServiceDeleteIDKey(Caller, f)

SpecService == InitService /\ [][NextService]_vars

\* GET /user: authMiddleware validates the Bearer token and answers with the
\* error of Service.ValidateToken, or hands the user_id of the claims to
\* handleGetUser, which calls Service.GetUserByID with it.
authMiddleware(p, tokenString, how) ==
  IF ParseWithClaims(tokenString, jwtSecret, now) # ""
  THEN how = GetOK /\ ServiceValidateTokenCall(p, tokenString)
  ELSE ServiceGetUserByIDCall(p, tokenString.claims.user_id, how)

\* The server: concurrent requests to its routes, which reach auth.Service on
\* one store: POST /register, POST /login, POST /validate and GET /user.  No
\* route deletes a user.  Any store call may fail and the clock stands still.
\* A request that is answered before the Service is called (wrong method,
\* undecodable body, missing Authorization header, /health) changes nothing.
NextServer ==
  \/ \E p \in Procs, e \in ValidEmails, g \in GetChoices :
       ServiceRegisterCall(p, e, <<1>>, g, 1)
  \/ \E p \in Procs, f \in FailChoices : ServiceSetUser(p, f)
  \/ \E p \in Procs, f \in FailChoices : ServiceSetUserID(p, f)
  \/ \E p \in Procs, e \in ValidEmails, pw \in ValidPasswords, g \in GetChoices :
       ServiceLoginCall(p, e, pw, g, NoDrift)
  \/ \E p \in Procs, base \in issued : \E t \in Presented(base) :
       ServiceValidateTokenCall(p, t)
  \/ \E p \in Procs, base \in issued, g \in GetChoices : \E t \in Presented(base) :
       authMiddleware(p, t, g)
  \/ \E p \in Procs, g \in GetChoices : ServiceGetUserStep(p, g)

SpecServer == InitService /\ [][NextServer]_vars

\* ------------------------------------------------------------------ claims
Returned(op) == ev.call.op = op

\* The operation that returned found the store and the caller undisturbed:
\* no store call of it failed, and what was established about its user when
\* it began still was when it ended.
Undisturbed == ev.note.nofault /\ ev.note.steady

\* A token as Login issues it: HS256 under the client's secret.
CorrectlySigned(tok) ==
  ~tok.malformed /\ tok.alg = "HS256" /\ tok.sig = Sign("HS256", jwtSecret, tok.claims)

\* The returned operation had a token of the user that is established as
\* registered, and presented it before the token's expiry.
LiveToken ==
  /\ ev.call.token \in issued
  /\ ev.call.expect.st = "registered"
  /\ ev.call.token.claims.user_id = ev.call.expect.id
  /\ ev.call.at < ev.call.token.claims.exp

\* C1: after a successful, undisturbed Register(e, p), Login(e, p) whose store
\* call succeeds returns a token for the registered id, and ValidateToken on
\* that token before its expiry, its store calls succeeding, returns a record
\* with the id Register returned.
C1_RegisterLoginValidate ==
  /\ ( /\ Returned("Client.Login")
       /\ ev.call.expect.st = "registered"
       /\ ev.call.password = ev.call.expect.password
       /\ Undisturbed )
     => /\ ev.res.ok
        /\ ev.res.info.ID = ev.call.expect.id
        /\ ev.res.token.claims.user_id = ev.call.expect.id
  /\ (Returned("Client.ValidateToken") /\ LiveToken /\ Undisturbed)
     => (ev.res.ok /\ ev.res.user.ID = ev.call.expect.id)

C1_Witness ==
  /\ Returned("Client.ValidateToken") /\ LiveToken /\ Undisturbed
  /\ ev.res.ok /\ ev.res.user.ID = ev.call.expect.id

\* C2: Login returns a token only if, at its lookup, the email key held a
\* record whose stored hash is the hash of the password given, and email and
\* password were not empty; a Login that fails returns no token.
C2_TokenOnlyWhenVerified ==
  Returned("Client.Login") =>
    /\ ev.res.ok =>
         /\ ev.call.email # "" /\ ev.call.password # <<>>
         /\ ev.note.present /\ ev.note.seen.json
         /\ ev.note.seen.user.Email = ev.call.email
         /\ ev.note.seen.user.PasswordHash.digest = BcryptKey(ev.call.password)
         /\ ev.res.token \in issued
    /\ ~ev.res.ok => ev.res.token = NoToken

C2_Witness ==
  /\ Returned("Client.Login") /\ ev.res.ok
  /\ ev.note.seen.user.PasswordHash.digest = BcryptKey(ev.call.password)

\* C3: Login with a password other than the one of the record stored under
\* the email returns InvalidCredentials, never UserNotFound.
C3_WrongPasswordIsInvalidCredentials ==
  ( /\ Returned("Client.Login")
    /\ ev.call.password # <<>>
    /\ ev.note.present /\ ev.note.seen.json
    /\ \E pw \in Passwords \ {ev.call.password} :
         ev.note.seen.user.PasswordHash.digest = BcryptKey(pw) )
  => (IsInvalidCredentials(ev.res.err) /\ ~IsUserNotFound(ev.res.err))

\* C4: a Register with well-formed arguments for an email that is established
\* as registered (registered successfully, no DeleteUser or other Register on
\* it since) returns UserAlreadyExists.
C4_SecondRegisterRejected ==
  ( /\ Returned("Client.Register")
    /\ ev.call.password # <<>>
    /\ ev.call.expect.st = "registered" )
  => IsUserAlreadyExists(ev.res.err)

\* C5: once DeleteUser(email) has succeeded undisturbed, GetUserByID with the
\* id of the deleted record returns UserNotFound, and so does ValidateToken
\* on an issued, unexpired token of that id.
C5_DeletedUserNotFound ==
  /\ ( /\ Returned("Client.GetUserByID")
       /\ ev.call.expect.st = "deleted"
       /\ ev.note.steady )
     => IsUserNotFound(ev.res.err)
  /\ ( /\ Returned("Client.ValidateToken")
       /\ ev.call.expect.st = "deleted"
       /\ ev.note.steady
       /\ ev.call.token \in issued
       /\ ev.call.at < ev.call.token.claims.exp )
     => IsUserNotFound(ev.res.err)

C5_Witness ==
  /\ Returned("Client.ValidateToken")
  /\ ev.call.expect.st = "deleted" /\ ev.note.steady
  /\ ev.call.token \in issued
  /\ ev.call.token.claims.user_id = ev.call.expect.id
  /\ ev.call.at < ev.call.token.claims.exp
  /\ IsUserNotFound(ev.res.err)

\* C6: a ValidateToken that succeeds returns the record that the store held,
\* when it was read, under the email the id index gave for the token's user
\* id; the identity in the token's claims is not what is returned.
C6_LiveRecord ==
  (Returned("Client.ValidateToken") /\ ev.res.ok)
  => /\ ev.note.present /\ ev.note.seen.json
     /\ ev.res.user = ev.note.seen.user
     /\ ev.res.user.Email = ev.call.emailData

C6_Witness ==
  /\ Returned("Client.ValidateToken") /\ ev.res.ok
  /\ ev.res.user = ev.note.seen.user
  /\ ev.res.user.ID # ev.call.token.claims.user_id

\* C7: ValidateToken at time t fails for every token with t before its
\* notBefore or t at or after its expiresAt; for a correctly signed token
\* with notBefore <= t < expiresAt the token check passes, and if the token's
\* user is registered and the two reads succeed, ValidateToken succeeds.
C7_ValidityWindow ==
  Returned("Client.ValidateToken") =>
    LET tok == ev.call.token
        t == ev.call.at
    IN  /\ (~tok.malformed /\ (t < tok.claims.nbf \/ t >= tok.claims.exp))
           => (~ev.res.ok /\ ev.res.err.Op = "Client.parseToken")
        /\ (CorrectlySigned(tok) /\ tok.claims.nbf <= t /\ t < tok.claims.exp)
           => /\ ev.res.err.Op # "Client.parseToken"
              /\ ( /\ ev.call.expect.st = "registered"
                   /\ tok.claims.user_id = ev.call.expect.id
                   /\ Undisturbed ) => ev.res.ok

C7_Witness ==
  /\ Returned("Client.ValidateToken")
  /\ CorrectlySigned(ev.call.token)
  /\ ev.call.token \in issued
  /\ ev.call.at = ev.call.token.claims.exp
  /\ ev.call.expect.st = "registered"
  /\ ~ev.res.ok

\* C8: every failure of ValidateToken that the token itself causes is an
\* InvalidToken error: IsInvalidToken holds of the error returned.
C8_TokenFailuresAreInvalidToken ==
  ( /\ Returned("Client.ValidateToken")
    /\ ~ev.res.ok
    /\ ev.res.err.Op = "Client.parseToken" )
  => IsInvalidToken(ev.res.err)

\* C9: ValidateToken rejects every token whose declared signing algorithm is
\* not HS256, the one Login issues, whatever its signature.
C9_OnlyHS256Accepted ==
  ( /\ Returned("Client.ValidateToken")
    /\ ~ev.call.token.malformed
    /\ ev.call.token.alg # "HS256" )
  => (~ev.res.ok /\ ev.res.err.Op = "Client.parseToken")

\* The dual-key invariant: the email key of e holds a record with id i exactly
\* if the id key of i exists and holds e.
DualKey ==
  /\ \A e \in Emails :
       getUserKey(e) \in DOMAIN store =>
         LET v == store[getUserKey(e)]
         IN  /\ v.json
             /\ v.user.Email = e
             /\ getUserIDKey(v.user.ID) \in DOMAIN store
             /\ String(store[getUserIDKey(v.user.ID)]) = e
  /\ \A i \in IDs :
       getUserIDKey(i) \in DOMAIN store =>
         LET e == String(store[getUserIDKey(i)])
         IN  /\ getUserKey(e) \in DOMAIN store
             /\ store[getUserKey(e)].json
             /\ store[getUserKey(e)].user.ID = i

Quiescent == \A p \in Procs : ~Mutating(p)

\* C10, as claimed: in every quiescent state reached with all store calls
\* succeeding, under any interleaving, the dual-key invariant holds.
C10_DualKeyAnyInterleaving ==
  (Quiescent /\ faults = 0) => DualKey

\* C10, amended: in every quiescent state reached with all store calls
\* succeeding and no two Register/DeleteUser calls on one email overlapping,
\* the dual-key invariant holds.
C10_DualKeyNoOverlap ==
  (Quiescent /\ faults = 0 /\ raced = {}) => DualKey

C10_Witness ==
  /\ Quiescent /\ faults = 0 /\ raced = {}
  /\ Returned("Client.Register") /\ ev.res.ok
  /\ getUserKey(ev.res.user.Email) \in DOMAIN store
  /\ getUserIDKey(ev.res.user.ID) \in DOMAIN store
  /\ DualKey

UserOps == {"Client.Register", "Client.Login", "Client.ValidateToken",
            "Client.GetUserByID", "Client.GetUserByEmail", "Client.DeleteUser"}

\* In this step caller p begins operation op (and may also end it).
Starts(p, op) ==
  /\ pc[p] = "idle"
  /\ \/ pc'[p] # "idle" /\ call'[p].op = op
     \/ pc'[p] = "idle" /\ ev'.proc = p /\ ev'.call.op = op

\* The arguments and locals of the operation that p begins in this step.
StartedCall(p) == IF pc'[p] = "idle" THEN ev'.call ELSE call'[p]

\* C11: when in Register the write of the id key fails after the write of
\* the email key succeeded, Register returns an error; afterwards the record
\* is stored under its email key and returned by GetUserByEmail, there is no
\* id key for it and GetUserByID on its id returns UserNotFound.
C11_IndexWriteFailureSurfaces ==
  /\ ( /\ Returned("Client.Register")
       /\ ev.call.calls.set = 2
       /\ ev.note.failed )
     => /\ ~ev.res.ok
        /\ ev.res.err # NoErr
        /\ ev.res.user = NoUser
        /\ Stored(getUserKey(ev.call.email)) = toJSON(ev.call.user)
        /\ getUserIDKey(ev.call.user.ID) \notin DOMAIN store
  /\ ( /\ Returned("Client.GetUserByEmail")
       /\ ev.call.expect.st = "partial"
       /\ ev.note.nofault )
     => /\ ev.res.ok
        /\ ev.res.user.ID = ev.call.expect.id
        /\ ev.res.user.Email = ev.call.email
  /\ ( /\ Returned("Client.GetUserByID")
       /\ ev.call.expect.st = "partial" )
     => IsUserNotFound(ev.res.err)

C11_Witness ==
  /\ Returned("Client.GetUserByID")
  /\ ev.call.expect.st = "partial"
  /\ ev.call.userID = ev.call.expect.id
  /\ ev.note.nofault
  /\ getUserKey(ev.call.expect.email) \in DOMAIN store
  /\ IsUserNotFound(ev.res.err)

\* C12: an operation one of whose store calls failed returns a storage
\* failure (code 500), never success, UserNotFound or UserAlreadyExists.
C12_StoreFailureIsStorageFailure ==
  (ev.call.op \in UserOps /\ ~ev.note.nofault)
  => /\ ~ev.res.ok
     /\ ev.res.err.Code = 500
     /\ ~IsUserNotFound(ev.res.err)
     /\ ~IsUserAlreadyExists(ev.res.err)

\* C13: a DeleteUser that begins while the email key of its argument is
\* absent returns UserNotFound at once, having issued no delete or write, and
\* leaves the store as it was.
C13_DeleteAbsentUser ==
  [][ \A p \in Procs :
        ( /\ Starts(p, "Client.DeleteUser")
          /\ getUserKey(StartedCall(p).email) \notin DOMAIN store )
        => /\ pc'[p] = "idle"
           /\ IsUserNotFound(ev'.res.err)
           /\ ev'.call.calls.del = 0
           /\ ev'.call.calls.set = 0
           /\ store' = store ]_vars

C13_Witness ==
  /\ Returned("Client.DeleteUser")
  /\ ev.call.email # ""
  /\ ~ev.note.present
  /\ ev.note.nofault
  /\ ev.call.calls.del = 0
  /\ IsUserNotFound(ev.res.err)

\* C14: a Register or Login that begins with an empty email or an empty
\* password returns InvalidInput with code 400 at once, having issued no
\* store call and computed no hash, and leaves the store as it was.
C14_EmptyInputRejectedFirst ==
  [][ \A p \in Procs :
        ( /\ Starts(p, "Client.Register") \/ Starts(p, "Client.Login")
          /\ StartedCall(p).email = "" \/ StartedCall(p).password = <<>> )
        => /\ pc'[p] = "idle"
           /\ ev'.res.err.Err = "ErrInvalidInput"
           /\ ev'.res.err.Code = 400
           /\ ~ev'.res.ok
           /\ ev'.call.calls = NoCall.calls
           /\ faults' = faults
           /\ store' = store ]_vars

C14_Witness ==
  /\ Returned("Client.Register")
  /\ ev.call.email # "" /\ ev.call.password = <<>>
  /\ ev.res.err.Err = "ErrInvalidInput"
  /\ ev.res.err.Code = 400
  /\ getUserKey(ev.call.email) \notin DOMAIN store

\* A time without its fraction of a second.
WholeSeconds(t) == t - (t % TicksPerSecond)

\* C15, as claimed: a token issued by Login at time now carries issuedAt =
\* notBefore = now and expiresAt = now + the configured lifetime (24 hours
\* when none is configured), and the expiry in the LoginResponse equals the
\* token's expiresAt.
C15_ClaimsAreNow ==
  (Returned("Client.Login") /\ ev.res.ok)
  => LET c == ev.res.token.claims
     IN  /\ jwtExpiry \in {24 * Hour} \cup {h * Hour : h \in ConfigHours \ {0}}
         /\ c.iat = ev.call.at
         /\ c.nbf = ev.call.at
         /\ c.exp = ev.call.at + jwtExpiry
         /\ ev.res.expiresAt = c.exp

\* C15, amended: a token issued by Login carries, truncated to whole seconds,
\* issuedAt and notBefore equal to clock readings taken during the call
\* (issuedAt <= notBefore) and expiresAt equal to the call's first clock
\* reading plus the configured lifetime (24 hours when none is configured);
\* the LoginResponse carries that expiry untruncated, so the token's expiresAt
\* is the LoginResponse expiry truncated to whole seconds.
C15_ClaimsAreNowInWholeSeconds ==
  (Returned("Client.Login") /\ ev.res.ok)
  => LET c == ev.res.token.claims
     IN  /\ jwtExpiry \in {24 * Hour} \cup {h * Hour : h \in ConfigHours \ {0}}
         /\ ev.res.expiresAt = ev.call.at + jwtExpiry
         /\ c.exp = WholeSeconds(ev.res.expiresAt)
         /\ \E t \in ev.call.at .. now : c.iat = WholeSeconds(t)
         /\ c.nbf = WholeSeconds(now)
         /\ c.iat <= c.nbf

C15_Witness ==
  /\ Returned("Client.Login") /\ ev.res.ok
  /\ jwtExpiry = 24 * Hour
  /\ ev.res.expiresAt # ev.res.token.claims.exp
  /\ ev.res.token.claims.exp = WholeSeconds(ev.res.expiresAt)
  /\ ev.res.token.claims.iat < ev.res.token.claims.nbf

\* C16: DeleteUser called with the id of a registered user succeeds, and
\* afterwards neither the id key nor the email key of that user is stored.
C16_DeleteByUserID ==
  ( /\ Returned("Client.DeleteUser")
    /\ ev.call.email \in IDs
    /\ KnownOfId(ev.call.email).st = "registered"
    /\ ev.note.nofault )
  => /\ ev.res.ok
     /\ getUserIDKey(ev.call.email) \notin DOMAIN store
     /\ getUserKey(KnownOfId(ev.call.email).email) \notin DOMAIN store

NulFree(password) == \A i \in 1..Len(password) : password[i] # 0

\* C17, as claimed: Login with the password p of a registered user passes the
\* password check, and Login with any other password p2 fails.
C17_HashRoundTrip ==
  (Returned("Client.Login") /\ ev.call.expect.st = "registered" /\ ev.note.nofault)
  => /\ ev.call.password = ev.call.expect.password => ev.res.ok
     /\ ev.call.password # ev.call.expect.password => ~ev.res.ok

\* C17, amended: Login with the password p of a registered user passes the
\* password check, and Login with any other password p2 fails provided p and
\* p2 hold no NUL byte and p2 is at most 72 bytes long.
C17_HashRoundTripWithinBcryptKey ==
  (Returned("Client.Login") /\ ev.call.expect.st = "registered" /\ ev.note.nofault)
  => /\ ev.call.password = ev.call.expect.password => ev.res.ok
     /\ ( /\ ev.call.password # ev.call.expect.password
          /\ NulFree(ev.call.password) /\ NulFree(ev.call.expect.password)
          /\ Len(ev.call.password) <= 72 )
        => ~ev.res.ok

C17_Witness ==
  /\ Returned("Client.Login")
  /\ ev.call.expect.st = "registered"
  /\ ev.call.expect.password = <<1>>
  /\ ev.call.password = Password72
  /\ ev.note.nofault
  /\ IsInvalidCredentials(ev.res.err)

\* C18: every error a user operation returns is an AppError that carries the
\* name of the failed operation, the underlying cause, a user-safe message and
\* a classification code, and each kind of error has its one code:
\* InvalidInput 400, UserNotFound 404, UserAlreadyExists 409,
\* InvalidCredentials and InvalidToken 401.
C18_ErrorsAreAppErrors ==
  (ev.res.op \in UserOps /\ ~ev.res.ok) =>
    /\ ev.res.err.Op # ""
    /\ ev.res.err.Err # ""
    /\ ev.res.err.Message # ""
    /\ ev.res.err.Code \in {400, 401, 404, 409, 500}
    /\ ev.res.err.Err = "ErrInvalidInput" => ev.res.err.Code = 400
    /\ IsUserNotFound(ev.res.err) => ev.res.err.Code = 404
    /\ IsUserAlreadyExists(ev.res.err) => ev.res.err.Code = 409
    /\ IsInvalidCredentials(ev.res.err) => ev.res.err.Code = 401
    /\ IsInvalidToken(ev.res.err) => ev.res.err.Code = 401

\* C20: a successful Login returns only the non-sensitive projection of the
\* stored record, its id and its email; the password hash of the record is in
\* no part of the LoginResponse.
C20_LoginResponseProjection ==
  (Returned("Client.Login") /\ ev.res.ok) =>
    LET rec == userFromJSON(ev.note.seen).user
    IN  /\ DOMAIN ev.res.info = {"ID", "Email"}
        /\ ev.res.info.ID = rec.ID
        /\ ev.res.info.Email = rec.Email
        /\ ev.res.user = NoUser
        /\ DOMAIN ev.res.token.claims = {"user_id", "email", "exp", "iat", "nbf"}

C20_Witness ==
  /\ Returned("Client.Login")
  /\ ev.res.ok
  /\ userFromJSON(ev.note.seen).user.PasswordHash.digest # <<>>
  /\ ev.res.info.ID # ""

\* C21: GetUserByID reads the index entry of the id and then the record under
\* the email it names; when the index entry is there and the record under that
\* email is not, it returns UserNotFound: no other error and no record.
C21_DanglingIndexIsUserNotFound ==
  (Returned("Client.GetUserByID") /\ ev.call.emailData # "" /\ ~ev.note.present) =>
    /\ ev.call.calls.get = 2
    /\ ~ev.res.ok
    /\ ev.res.user = NoUser
    /\ IsUserNotFound(ev.res.err)
    /\ ev.res.err.Code = 404

C21_Witness ==
  /\ Returned("Client.GetUserByID")
  /\ ev.call.nofault
  /\ getUserIDKey(ev.call.userID) \in DOMAIN store
  /\ String(store[getUserIDKey(ev.call.userID)]) = ev.call.emailData
  /\ getUserKey(ev.call.emailData) \notin DOMAIN store
  /\ IsUserNotFound(ev.res.err)

\* The email argument of the operation the caller's step belongs to.
StepEmail ==
  IF pc[Caller] # "idle" THEN call[Caller].email
  ELSE IF pc'[Caller] # "idle" THEN call'[Caller].email
  ELSE ev'.call.email

\* The entries of email y: its record and the index entry of the record's id.
EntriesOf(st, y) ==
  LET rec == IF getUserKey(y) \in DOMAIN st THEN st[getUserKey(y)] ELSE NoBytes
      idKey == getUserIDKey(userFromJSON(rec).user.ID)
  IN  <<getUserKey(y) \in DOMAIN st, rec,
        IF idKey \in DOMAIN st THEN st[idKey] ELSE NoBytes>>

KeysInjective ==
  \A x, y \in KeyStrings :
    /\ getUserKey(x) # getUserIDKey(y)
    /\ x # y => getUserKey(x) # getUserKey(y) /\ getUserIDKey(x) # getUserIDKey(y)

\* C22: key derivation is injective on emails (letter case counts) and on
\* ids, no email key is an id key, and so users whose emails differ, even in
\* letter case only, are independent: an operation on one email leaves the
\* entries of every other email as they were.
C22_KeysSeparateUsers ==
  [][ /\ KeysInjective
      /\ \A y \in CaseEmails \ {StepEmail} : EntriesOf(store', y) = EntriesOf(store, y) ]_vars

C22_Witness ==
  /\ Returned("Client.Register")
  /\ ev.res.ok
  /\ ev.call.email = "A@x.com"
  /\ \A e \in CaseEmails :
       /\ getUserKey(e) \in DOMAIN store
       /\ userFromJSON(store[getUserKey(e)]).user.Email = e
  /\ userFromJSON(store[getUserKey("a@x.com")]).user.ID
       # userFromJSON(store[getUserKey("A@x.com")]).user.ID

\* The value under a key, absent or not.
ValueAt(st, key) == IF key \in DOMAIN st THEN <<TRUE, st[key]>> ELSE <<FALSE, NoBytes>>

\* C23: Register calls that overlap on one email, none registered before, may
\* all pass the existence probe; each that meets no store failure returns
\* success, and the email-keyed entry holds the record of the email-keyed write
\* made last: such a write always replaces what is there, and only an
\* email-keyed write or delete changes the entry.
C23_LaterRegisterWinsSilently ==
  [][ /\ \A p \in Procs :
           (pc[p] = "saveUser_email" /\ pc'[p] = "saveUser_id") =>
             ValueAt(store', getUserKey(call[p].email)) = <<TRUE, toJSON(call[p].user)>>
      /\ \A e \in ValidEmails :
           ValueAt(store', getUserKey(e)) # ValueAt(store, getUserKey(e)) =>
             \E p \in Procs : /\ pc[p] \in {"saveUser_email", "del_email"}
                               /\ pc'[p] # pc[p]
                               /\ call[p].email = e
      /\ \A p \in Procs :
           ( /\ pc[p] = "saveUser_id" /\ pc'[p] = "idle"
             /\ ev'.note.nofault ) => ev'.res.ok /\ ev'.res.err = NoErr
    ]_vars

\* Both callers registered one email at once and both were told it worked;
\* the record kept is not the one returned to the caller that finished last.
C23_Witness ==
  /\ Returned("Client.Register")
  /\ ev.res.ok
  /\ faults = 0
  /\ ev.call.expect.st = "absent"
  /\ ev.res.user.Email \in raced
  /\ \A p \in Procs : pc[p] = "idle"
  /\ \A i \in {NewUUID(1), NewUUID(2)} :
       /\ getUserIDKey(i) \in DOMAIN store
       /\ String(store[getUserIDKey(i)]) = ev.res.user.Email
  /\ userFromJSON(store[getUserKey(ev.res.user.Email)]).user.ID # ev.res.user.ID

\* The record returned is the whole record of the user established when the
\* call began.
WholeRecordOf(user, est) ==
  /\ user.ID = est.id
  /\ user.Email = est.email
  /\ user.PasswordHash # NoHash
  /\ CompareHashAndPassword(user.PasswordHash, est.password) = ""

\* A DeleteUser of the user whose token was presented overlapped the call that
\* returned: it removed the user's record during the call, or is under way.
OverlappedDelete ==
  \/ ev.call.userID \in deleted.removed \ ev.call.began.removed
  \/ \E q \in Procs : /\ pc[q] \in {"del_email", "del_id"}
                       /\ call[q].user.ID = ev.call.userID

\* C24: a ValidateToken of a registered user's token that overlaps a
\* DeleteUser of that user returns the user's whole record as it was before
\* the deletion or UserNotFound, nothing else; a ValidateToken begun after a
\* DeleteUser of the user returned success returns UserNotFound.
C24_ValidateAgainstDelete ==
  (Returned("Client.ValidateToken") /\ ev.call.calls.get > 0) =>
    /\ (ev.call.expect.st = "registered" /\ OverlappedDelete) =>
         \/ ev.res.ok /\ WholeRecordOf(ev.res.user, ev.call.expect)
         \/ ~ev.res.ok /\ IsUserNotFound(ev.res.err) /\ ev.res.user = NoUser
    /\ ev.call.userID \in ev.call.began.done =>
         ~ev.res.ok /\ IsUserNotFound(ev.res.err)

\* The store calls an operation may make: gets, sets, deletes.
CallBudget(op) ==
  CASE op = "Client.Register"       -> <<1, 2, 0>>
    [] op = "Client.Login"          -> <<1, 0, 0>>
    [] op = "Client.ValidateToken"  -> <<2, 0, 0>>
    [] op = "Client.GetUserByID"    -> <<2, 0, 0>>
    [] op = "Client.GetUserByEmail" -> <<1, 0, 0>>
    [] op = "Client.DeleteUser"     -> <<1, 0, 2>>

WithinBudget(c) ==
  /\ c.calls.get <= CallBudget(c.op)[1]
  /\ c.calls.set <= CallBudget(c.op)[2]
  /\ c.calls.del <= CallBudget(c.op)[3]

\* C25: no operation retries a store call: each makes at most the store calls
\* of its budget (Register one get and two sets, Login one get, ValidateToken
\* and GetUserByID two gets, DeleteUser one get and two deletes), and the
\* first store call that fails ends it, so no operation is under way after one
\* of its store calls has failed.
C25_NoRetryFirstFailureEnds ==
  /\ \A p \in Procs : pc[p] # "idle" => call[p].nofault /\ WithinBudget(call[p])
  /\ ev.res.op \in UserOps => WithinBudget(ev.call)

\* C26: in a sequential execution, store failures included, a Register call
\* for an email whose registration succeeded and has not been deleted since
\* changes nothing of the stored record of that email: its id and its password
\* hash stay.
C26_RegisteredRecordImmutable ==
  [][ \A p \in Procs :
        ( /\ pc[p] \in {"saveUser_email", "saveUser_id"}
          /\ call[p].expect.st = "registered" ) =>
          ValueAt(store', getUserKey(call[p].email)) = ValueAt(store, getUserKey(call[p].email))
    ]_vars

\* C27: Service.ValidateToken, on which the server's /validate endpoint and
\* its auth middleware rest, rejects an unexpired, correctly signed token once
\* the user of the token has been deleted.
C27_ServiceRejectsDeletedUser ==
  ( /\ Returned("auth.ValidateToken")
    /\ CorrectlySigned(ev.call.token)
    /\ ev.call.at < ev.call.token.claims.exp
    /\ ev.call.userID \in ev.call.began.done ) => ~ev.res.ok

\* What auth.Service returns and leaves in the store when it is given what the
\* Client operation that returned was given: the store it found, the clock,
\* the arguments, and the identifier and salt that were drawn.
ServiceOn(c) ==
  CASE c.op = "Client.Register" ->
         ServiceRegister(c.store0, c.email, c.password, c.user.PasswordHash.salt,
                         c.user.ID, c.at, NoFails)
    [] c.op = "Client.Login" ->
         ServiceLogin(c.store0, c.email, c.password, c.at,
                      NewService(ServerExpirationHours), GetOK, NoDrift)
    [] c.op = "Client.ValidateToken" -> ServiceValidateToken(c.store0, c.token, c.at)
    [] c.op = "Client.GetUserByID" -> ServiceGetUserByID(c.store0, c.userID, NoReadFails)
    [] c.op = "Client.DeleteUser" -> ServiceDeleteUser(c.store0, c.email, NoFails)

ComparedOps == {"Client.Register", "Client.Login", "Client.ValidateToken",
                "Client.GetUserByID", "Client.DeleteUser"}

\* C28: the Client and the internal auth.Service are equivalent: on the same
\* store contents, clock and inputs, Register, Login, ValidateToken,
\* GetUserByID and DeleteUser return the same kind of outcome (success, or an
\* error of the same class) and leave the same store contents.
C28_ClientEquivalentToService ==
  (ev.res.op \in ComparedOps /\ ev.call.nofault) =>
    /\ ServiceOn(ev.call).ok = ev.res.ok
    /\ ServiceOn(ev.call).err.Err = ev.res.err.Err
    /\ ServiceOn(ev.call).err.Code = ev.res.err.Code
    /\ ServiceOn(ev.call).store = store

\* C29: under any interleaving and any outcomes of the store calls, a
\* GetUserByID(id) that succeeds returns a record whose ID is id, and a
\* ValidateToken that succeeds returns a record whose ID is the user id in the
\* claims of the token.
C29_ReturnedIdMatches ==
  /\ (Returned("Client.GetUserByID") /\ ev.res.ok) => ev.res.user.ID = ev.call.userID
  /\ (Returned("Client.ValidateToken") /\ ev.res.ok) =>
       ev.res.user.ID = ev.call.token.claims.user_id

\* C30: a token issued to a user whose email-keyed record a DeleteUser has
\* since removed never validates again, whether or not the email has been
\* registered again and whether or not that DeleteUser went on to remove the
\* index entry of the id.
C30_TokenOfRemovedUserNeverValidates ==
  ( /\ Returned("Client.ValidateToken")
    /\ ev.call.token \in issued
    /\ ev.call.token.claims.user_id \in ev.call.began.removed ) => ~ev.res.ok

\* C31: whenever a DeleteUser removes the email-keyed entry, the record it
\* removes is the one its lookup returned, however Register and DeleteUser
\* calls for that email interleave.
C31_DeleteRemovesLookedUpRecord ==
  [][ \A p \in Procs :
        ( /\ pc[p] = "del_email" /\ pc'[p] = "del_id"
          /\ getUserKey(call[p].email) \in DOMAIN store
          /\ getUserKey(call[p].email) \notin DOMAIN store' ) =>
            userFromJSON(store[getUserKey(call[p].email)]).user.ID = call[p].user.ID
    ]_vars

\* The store holds this record under the key of its email.
HoldsRecord(st, user) ==
  /\ getUserKey(user.Email) \in DOMAIN st
  /\ st[getUserKey(user.Email)] = toJSON(user)

\* The index entry of this user is in the store.
IndexSeen(user) == getUserIDKey(user.ID) \in DOMAIN store

RegisterInFlight(p) == pc[p] \in {"saveUser_email", "saveUser_id"}

\* C32, as claimed: from the start of a Register to the state its last store
\* call leaves, under any interleaving, whoever sees the index entry of the
\* new user also sees the record under the email the entry names.
C32_IndexNeverWithoutRecord ==
  /\ \A p \in Procs :
       (RegisterInFlight(p) /\ IndexSeen(call[p].user)) => HoldsRecord(store, call[p].user)
  /\ (Returned("Client.Register") /\ IndexSeen(ev.call.user)) =>
       HoldsRecord(store, ev.call.user)

\* C32, amended: the index entry of the new user is not in the store until
\* the email-keyed write of the same Register has been made; and as long as
\* no other Register or DeleteUser for that email overlaps the call, whoever
\* sees the index entry also sees the record.
C32_IndexAfterRecordUnlessOverlapped ==
  /\ \A p \in Procs :
       /\ pc[p] = "saveUser_email" => ~IndexSeen(call[p].user)
       /\ (RegisterInFlight(p) /\ alone[p] /\ IndexSeen(call[p].user)) =>
            HoldsRecord(store, call[p].user)
  /\ (Returned("Client.Register") /\ ev.note.steady /\ IndexSeen(ev.call.user)) =>
       HoldsRecord(store, ev.call.user)

\* A Register that no other call overlapped has just made its second write:
\* the index entry and the record are both there.
C32_Witness ==
  /\ Returned("Client.Register")
  /\ ev.call.calls.set = 2
  /\ ev.note.steady
  /\ IndexSeen(ev.call.user)
  /\ HoldsRecord(store, ev.call.user)

\* C33: once a Register has written the record of an email and failed to
\* write its index entry, a Register tried again for that email returns
\* UserAlreadyExists and writes nothing, a Login with the registered password
\* that meets no store failure succeeds, a ValidateToken of the token such a
\* Login returned yields UserNotFound, and the index entry stays missing
\* whatever Register and Login calls follow.
C33_MissingIndexIsNeverRepaired ==
  /\ ( /\ Returned("Client.Register") /\ ev.call.expect.st = "partial"
       /\ ev.call.password # <<>> ) =>
       /\ ~ev.res.ok /\ IsUserAlreadyExists(ev.res.err)
       /\ ev.call.calls.set = 0
  /\ ( /\ Returned("Client.Login") /\ ev.call.expect.st = "partial"
       /\ ev.call.password = ev.call.expect.password
       /\ ev.note.nofault ) => ev.res.ok
  /\ ( /\ Returned("Client.ValidateToken") /\ ev.call.token \in issued
       /\ ev.call.expect.st = "partial" ) => ~ev.res.ok /\ IsUserNotFound(ev.res.err)
  /\ \A e \in ValidEmails :
       known[e].st = "partial" => getUserIDKey(known[e].id) \notin DOMAIN store

\* The ids whose record a DeleteUser removed without removing the index entry
\* that st holds for them.
Orphans(d, st) == {i \in d.removed \ d.done : getUserIDKey(i) \in DOMAIN st}

\* The call that returned was a DeleteUser for an email that had no record
\* when it began, while an orphaned index entry still named that email.
RetriedDelete ==
  /\ Returned("Client.DeleteUser")
  /\ getUserKey(ev.call.email) \notin DOMAIN ev.call.store0
  /\ \E i \in Orphans(deleted, ev.call.store0) :
       String(ev.call.store0[getUserIDKey(i)]) = ev.call.email

\* C34: after a DeleteUser that removed the email-keyed entry and failed to
\* remove the id-keyed entry, a DeleteUser tried again for that email returns
\* UserNotFound and issues no delete; and no user operation removes or changes
\* the orphaned index entry, which therefore stays in the store.
C34_OrphanedIndexStays ==
  /\ RetriedDelete =>
       /\ ~ev.res.ok /\ IsUserNotFound(ev.res.err)
       /\ ev.call.calls.del = 0
       /\ store = ev.call.store0
  /\ ev.call.op \in UserOps =>
       \A i \in Orphans(deleted, ev.call.store0) :
         /\ getUserIDKey(i) \in DOMAIN store
         /\ store[getUserIDKey(i)] = ev.call.store0[getUserIDKey(i)]

\* DeleteUser was tried again after it had removed the record only, and was
\* told that there is no such user; the index entry is still there.
C34_Witness ==
  /\ RetriedDelete
  /\ IsUserNotFound(ev.res.err)
  /\ Orphans(deleted, store) # {}

ReadOps == {"Client.Login", "Client.ValidateToken", "Client.GetUserByID",
            "Client.GetUserByEmail"}

\* C35: Login, ValidateToken, GetUserByID and GetUserByEmail, whatever they
\* return, have issued no set and no delete, and the store they leave is the
\* store they found.
C35_ReadOperationsWriteNothing ==
  ev.call.op \in ReadOps =>
    /\ ev.call.calls.set = 0
    /\ ev.call.calls.del = 0
    /\ store = ev.call.store0

\* A read through both keys has succeeded on a store that holds a user.
C35_Witness ==
  /\ ev.call.op \in ReadOps
  /\ ev.res.ok
  /\ ev.call.calls.get = 2
  /\ store # <<>>
  /\ store = ev.call.store0

\* C36: under every lifetime that NewClient accepts, a token that a
\* successful Login returns expires strictly after its notBefore and passes
\* the checks of parseToken at the time Login returns it.
C36_IssuedTokenIsValidAtIssue ==
  (Returned("Client.Login") /\ ev.res.ok) =>
    /\ ev.res.token.claims.exp > ev.res.token.claims.nbf
    /\ parseToken(ev.res.token, now).err = NoErr

PassthroughOps == {"Client.KVSet", "Client.KVDelete", "Client.KVDeleteBulk"}

\* The keys under which user records and their index entries live.
UserKeys == {getUserKey(e) : e \in ValidEmails} \cup {getUserIDKey(i) : i \in IDs}

\* C37: no call of KVSet, KVDelete or KVDeleteBulk creates, changes or
\* removes the email-keyed or the id-keyed entry of a user.
C37_PassthroughLeavesUserEntries ==
  [][ ev'.call.op \in PassthroughOps =>
        \A k \in UserKeys : ValueAt(store', k) = ValueAt(store, k)
    ]_vars

====
